---- MODULE Spec2Model ----
(***************************************************************************)
(* A model of the sonification analytics core of btc-sound: the scale     *)
(* quantizer, the tick analyzer, the adaptive price tracker, the rolling  *)
(* pattern window with its detector, and the harmony state machine.       *)
(*                                                                         *)
(* Numbers.  The program computes on IEEE doubles; the model computes the  *)
(* same expressions over the rationals, exactly.  Prices are integers (the *)
(* feed's price counted in a minor unit), quantities with a denominator    *)
(* are kept as numerator/denominator pairs, and products that do not fit   *)
(* a machine integer are carried out on arbitrary-precision naturals       *)
(* (BigNat, below).  The one irrational quantity, the standard deviation,  *)
(* is compared exactly through its square and reported as a fixed-point    *)
(* value rounded down (see FP).                                            *)
(***************************************************************************)
EXTENDS Integers, Sequences, FiniteSets, TLC

VARIABLES
    now,            \* Date.now(), in ms
    lastPriceRef,   \* the page's last price: <<>> for null, <<p>> otherwise
    emaPrice,       \* tick analyzer's EMA accumulator: <<>> or <<[num, exp]>>
    priceTracker,   \* the adaptive range and its bounded price history
    entries,        \* priceWindow.entries
    harmonyState,   \* the harmony singleton
    fed,            \* history: the prices fed to the tick analyzer so far
    out,            \* history: the PriceChange returned for each of them
    streak,         \* history: updateHarmony calls since the last reset
    feed,           \* the price feed: the move it is making and from where
    ret,            \* the last operation and what it returned
    lastTriggerTime,       \* tick analyzer: time of the last debounced call
    patternHistory,        \* the sound packs' pattern history
    audioState,            \* the engine hook's audioState
    isReady,               \* the engine hook's isReady
    lastHarmonyUpdateRef,  \* the engine hook's lastHarmonyUpdateRef
    lastBassUpdateRef,     \* the engine hook's lastBassUpdateRef
    lastPadUpdateRef,      \* the engine hook's lastPadUpdateRef
    tickTimestampsRef,     \* the engine hook's tickTimestampsRef
    lastDirectionRef,      \* the engine hook's lastDirectionRef
    activeVoicesRef,       \* the engine hook's activeVoicesRef
    voiceTimers,           \* the voice-release timeouts set and not yet run
    bell,                  \* the bell hook: its audio flags and its refs
    wsHook,                \* the feed hook: its sockets, timers, refs and state
    tradePrice,            \* the feed hook's `price`: <<>> for null, <<p>>
    delivered,      \* history: the prices of the trade messages received
    processed,      \* history: for each handlePriceTick run, the number of
                    \* the trade message whose price it was given
    disabledBefore, \* history: disableAudio was called and no tick played since
    resetDone       \* history: the components reset and not written since

tickRefs == <<tickTimestampsRef, lastDirectionRef, activeVoicesRef, voiceTimers>>

sessionVars == <<lastTriggerTime, patternHistory, audioState, isReady,
                 lastHarmonyUpdateRef, lastBassUpdateRef,
                 lastPadUpdateRef, tickRefs, bell, wsHook, tradePrice, delivered, processed,
                 disabledBefore>>

vars == <<now, lastPriceRef, emaPrice, priceTracker, entries, harmonyState,
          fed, out, streak, feed, ret, sessionVars, resetDone>>

-----------------------------------------------------------------------------
(* Small helpers.                                                          *)

Abs(x) == IF x < 0 THEN -x ELSE x
Min2(a, b) == IF a < b THEN a ELSE b
Max2(a, b) == IF a > b THEN a ELSE b
None == << >>
Some(x) == <<x>>

-----------------------------------------------------------------------------
(* BigNat: naturals of any size, as little-endian sequences of limbs in    *)
(* base 10^4 without leading zero limbs (zero is the empty sequence).      *)

BigBase == 100 * 100

RECURSIVE Big(_)
Big(n) == IF n = 0 THEN << >> ELSE <<n % BigBase>> \o Big(n \div BigBase)

RECURSIVE BigAddC(_, _, _)
BigAddC(a, b, c) ==
    IF a = << >> /\ b = << >>
    THEN (IF c = 0 THEN << >> ELSE <<c>>)
    ELSE LET x == IF a = << >> THEN 0 ELSE Head(a)
             y == IF b = << >> THEN 0 ELSE Head(b)
             s == x + y + c
         IN  <<s % BigBase>> \o
             BigAddC(IF a = << >> THEN a ELSE Tail(a),
                     IF b = << >> THEN b ELSE Tail(b),
                     s \div BigBase)

BigAdd(a, b) == BigAddC(a, b, 0)

RECURSIVE BigMulC(_, _, _)
\* a * k + c, for a machine-size k with k * BigBase inside the machine width
BigMulC(a, k, c) ==
    IF a = << >>
    THEN Big(c)
    ELSE LET s == Head(a) * k + c
         IN  <<s % BigBase>> \o BigMulC(Tail(a), k, s \div BigBase)

BigMulS(a, k) == IF k = 0 \/ a = << >> THEN << >> ELSE BigMulC(a, k, 0)

RECURSIVE BigMul(_, _)
BigMul(a, b) ==
    IF a = << >> \/ b = << >>
    THEN << >>
    ELSE LET rest == BigMul(a, Tail(b))
         IN  BigAdd(BigMulS(a, Head(b)),
                    IF rest = << >> THEN << >> ELSE <<0>> \o rest)

RECURSIVE BigCmpFrom(_, _, _)
\* compares equally long a and b from limb i downwards: -1, 0 or 1
BigCmpFrom(a, b, i) ==
    IF i = 0 THEN 0
    ELSE IF a[i] < b[i] THEN -1
    ELSE IF a[i] > b[i] THEN 1
    ELSE BigCmpFrom(a, b, i - 1)

BigCmp(a, b) ==
    IF Len(a) < Len(b) THEN -1
    ELSE IF Len(a) > Len(b) THEN 1
    ELSE BigCmpFrom(a, b, Len(a))

BigLt(a, b) == BigCmp(a, b) < 0
BigLe(a, b) == BigCmp(a, b) <= 0

\* x * y < u * v and x * y <= u * v for machine-size naturals, without overflow
MulLt(x, y, u, v) == BigLt(BigMul(Big(x), Big(y)), BigMul(Big(u), Big(v)))
MulLe(x, y, u, v) == BigLe(BigMul(Big(x), Big(y)), BigMul(Big(u), Big(v)))

RECURSIVE BigTrim(_)
\* drops the leading (most significant) zero limbs
BigTrim(a) ==
    IF a = << >> THEN a
    ELSE IF a[Len(a)] = 0 THEN BigTrim(SubSeq(a, 1, Len(a) - 1))
    ELSE a

RECURSIVE BigSubB(_, _, _)
BigSubB(a, b, borrow) ==
    IF a = << >> THEN << >>
    ELSE LET y == IF b = << >> THEN 0 ELSE Head(b)
             t == Head(a) - y - borrow
         IN  <<IF t < 0 THEN t + BigBase ELSE t>> \o
             BigSubB(Tail(a), IF b = << >> THEN b ELSE Tail(b),
                     IF t < 0 THEN 1 ELSE 0)

\* a - b, for a >= b
BigSub(a, b) == BigTrim(BigSubB(a, b, 0))

RECURSIVE BigShift10(_, _)
\* a * 10^k
BigShift10(a, k) == IF k = 0 THEN a ELSE BigShift10(BigMulS(a, 10), k - 1)

-----------------------------------------------------------------------------
(* Exact non-negative decimals: [num |-> BigNat, exp |-> k] is num / 10^k. *)

Dec(n) == [num |-> Big(n), exp |-> 0]
\* x * k / 10^j
DecScale(x, k, j) == [num |-> BigMulS(x.num, k), exp |-> x.exp + j]
DecNumAt(x, e) == BigShift10(x.num, e - x.exp)
DecAdd(x, y) ==
    LET e == Max2(x.exp, y.exp)
    IN  [num |-> BigAdd(DecNumAt(x, e), DecNumAt(y, e)), exp |-> e]
\* x - y, for x >= y
DecSub(x, y) ==
    LET e == Max2(x.exp, y.exp)
    IN  [num |-> BigSub(DecNumAt(x, e), DecNumAt(y, e)), exp |-> e]
DecLt(x, y) ==
    LET e == Max2(x.exp, y.exp) IN BigLt(DecNumAt(x, e), DecNumAt(y, e))
DecLe(x, y) ==
    LET e == Max2(x.exp, y.exp) IN BigLe(DecNumAt(x, e), DecNumAt(y, e))

\* a / 10, for a divisible by 10
BigDiv10(a) ==
    BigTrim([i \in 1 .. Len(a) |->
                (a[i] \div 10) + (IF i < Len(a) THEN (a[i + 1] % 10) * 1000 ELSE 0)])

RECURSIVE DecNorm(_)
\* the same number with the smallest exponent
DecNorm(x) ==
    IF x.num = << >> THEN [num |-> << >>, exp |-> 0]
    ELSE IF x.exp > 0 /\ Head(x.num) % 10 = 0
    THEN DecNorm([num |-> BigDiv10(x.num), exp |-> x.exp - 1])
    ELSE x

-----------------------------------------------------------------------------
(* Scale/Theory library.                                                   *)

ScaleTypes == {"pentatonic", "major", "minor", "chromatic"}

SCALE_INTERVALS ==
    [pentatonic |-> <<0, 2, 4, 7, 9>>,
     major      |-> <<0, 2, 4, 5, 7, 9, 11>>,
     minor      |-> <<0, 2, 3, 5, 7, 8, 10>>,
     chromatic  |-> <<0, 1, 2, 3, 4, 5, 6, 7, 8, 9, 10, 11>>]

\* the loop of quantizeToScale: the index of the closest interval, where a
\* later interval replaces the current best only when strictly closer
ActualDistance(adjustedNote, interval) ==
    Min2(Abs(adjustedNote - interval), Abs(adjustedNote - (interval + 12)))

RECURSIVE ClosestIndexLast(_, _, _, _)
ClosestIndexLast(intervals, adjustedNote, i, best) ==
    IF i > Len(intervals) THEN best
    ELSE IF best = 0 \/
            ActualDistance(adjustedNote, intervals[i]) <=
                ActualDistance(adjustedNote, intervals[best])
         THEN ClosestIndexLast(intervals, adjustedNote, i + 1, i)
         ELSE ClosestIndexLast(intervals, adjustedNote, i + 1, best)

RECURSIVE ClosestIndex(_, _, _, _)
ClosestIndex(intervals, adjustedNote, i, best) ==
    IF i > Len(intervals) THEN best
    ELSE IF best = 0 \/
            ActualDistance(adjustedNote, intervals[i]) <
                ActualDistance(adjustedNote, intervals[best])
         THEN ClosestIndex(intervals, adjustedNote, i + 1, i)
         ELSE ClosestIndex(intervals, adjustedNote, i + 1, best)

OctaveFixPlain(quantizedNote, midiNote) == quantizedNote

OctaveFix(quantizedNote, midiNote) ==
    IF quantizedNote > midiNote + 6 THEN quantizedNote - 12
    ELSE IF quantizedNote < midiNote - 6 THEN quantizedNote + 12
    ELSE quantizedNote

QuantizeToScaleNoRoot(midiNote, scale, rootNote) ==
    LET intervals       == SCALE_INTERVALS[scale]
        octave          == midiNote \div 12
        noteInOctave    == midiNote % 12
        adjustedNote    == (noteInOctave - rootNote + 12) % 12
        closestInterval == intervals[ClosestIndex(intervals, adjustedNote, 1, 0)]
        quantizedNote   == octave * 12 + closestInterval
    IN  OctaveFix(quantizedNote, midiNote)

QuantizeToScale(midiNote, scale, rootNote) ==
    LET intervals       == SCALE_INTERVALS[scale]
        octave          == midiNote \div 12
        noteInOctave    == midiNote % 12
        adjustedNote    == (noteInOctave - rootNote + 12) % 12
        closestInterval == intervals[ClosestIndex(intervals, adjustedNote, 1, 0)]
        quantizedNote   == octave * 12 + ((closestInterval + rootNote) % 12)
    IN  OctaveFix(quantizedNote, midiNote)

-----------------------------------------------------------------------------
(* Rationals: [n |-> numerator, d |-> denominator], d > 0.                 *)

Rat(n, d) == [n |-> n, d |-> d]
RatZero == Rat(0, 1)
RatOne == Rat(1, 1)
RatAbs(a) == Rat(Abs(a.n), a.d)
\* orderings by exact cross-multiplication (numerators may be negative)
RatLt(a, b) ==
    IF a.n < 0 /\ b.n >= 0 THEN TRUE
    ELSE IF a.n >= 0 /\ b.n < 0 THEN FALSE
    ELSE IF a.n >= 0 THEN MulLt(a.n, b.d, b.n, a.d)
    ELSE MulLt(-b.n, a.d, -a.n, b.d)
RatLe(a, b) == ~ RatLt(b, a)
RatEq(a, b) == RatLe(a, b) /\ RatLe(b, a)

-----------------------------------------------------------------------------
(* Tick analyzer.                                                          *)

NEUTRAL_THRESHOLD == Rat(1, 1000000)
MAX_THRESHOLD == Rat(5, 1000)
EMA_ALPHA == Rat(3, 10)

Directions == {"up", "down", "neutral"}

\* emaPrice as an exact decimal, num / 10^exp:
\*   EMA_ALPHA * currentPrice + (1 - EMA_ALPHA) * emaPrice
EmaAfter(ema, currentPrice, previousPrice) ==
    IF previousPrice = None \/ ema = None
    THEN Some([num |-> Big(currentPrice), exp |-> 0])
    ELSE LET e == ema[1]
         IN  Some([num |-> BigAdd(
                              BigShift10(Big(EMA_ALPHA.n * currentPrice), e.exp),
                              BigMulS(e.num, EMA_ALPHA.d - EMA_ALPHA.n)),
                   exp |-> e.exp + 1])

DirectionOfLe(percentChange) ==
    IF RatLe(RatAbs(percentChange), NEUTRAL_THRESHOLD) THEN "neutral"
    ELSE IF percentChange.n > 0 THEN "up" ELSE "down"

DirectionOf(percentChange) ==
    IF RatLt(RatAbs(percentChange), NEUTRAL_THRESHOLD) THEN "neutral"
    ELSE IF percentChange.n > 0 THEN "up" ELSE "down"

MagnitudeOfUncapped(absChange) ==
    Rat(absChange.n * MAX_THRESHOLD.d, absChange.d * MAX_THRESHOLD.n)

DEBOUNCE_MS == 100

\* Math.min(absChange / MAX_THRESHOLD, 1)
MagnitudeOf(absChange) ==
    IF RatLt(absChange, MAX_THRESHOLD)
    THEN Rat(absChange.n * MAX_THRESHOLD.d, absChange.d * MAX_THRESHOLD.n)
    ELSE RatOne

\* a variant that fires on any change of direction
ShouldPlayPercussionAnyChange(currentDirection, previousDirection) ==
    currentDirection # previousDirection

\* shouldPlayPercussion(currentDirection, previousDirection)
ShouldPlayPercussion(currentDirection, previousDirection) ==
    IF currentDirection = "neutral" \/ previousDirection = "neutral"
    THEN FALSE
    ELSE currentDirection # previousDirection

\* a variant that divides by the current price
PriceChangeOfCurrentBase(currentPrice, previousPrice) ==
    IF previousPrice = None
    THEN [direction |-> "neutral", magnitude |-> RatZero, percentChange |-> RatZero]
    ELSE LET percentChange == Rat(currentPrice - previousPrice[1], currentPrice)
             absChange     == RatAbs(percentChange)
         IN  [direction     |-> DirectionOf(percentChange),
              magnitude     |-> MagnitudeOf(absChange),
              percentChange |-> percentChange]

\* analyzePriceChangeImmediate's return value; previousPrice is <<>> or <<p>>
PriceChangeOf(currentPrice, previousPrice) ==
    IF previousPrice = None
    THEN [direction |-> "neutral", magnitude |-> RatZero, percentChange |-> RatZero]
    ELSE LET percentChange == Rat(currentPrice - previousPrice[1], previousPrice[1])
             absChange     == RatAbs(percentChange)
         IN  [direction     |-> DirectionOf(percentChange),
              magnitude     |-> MagnitudeOf(absChange),
              percentChange |-> percentChange]

-----------------------------------------------------------------------------
(* Price normalizer: the adaptive range.                                   *)

DEFAULT_PRICE_RANGE == [min |-> 90000, max |-> 110000]
MIDI_RANGE == [min |-> 48, max |-> 72]
MAX_TRACKED_PRICES == 1000

\* [...prices].sort((a, b) => a - b)[k], k counted from 0
KthSmallest(prices, k) == SortSeq(prices, LAMBDA a, b : a < b)[k + 1]

\* a variant that keeps the oldest samples: prices.slice(0, count)
FirstOf(prices, count) ==
    IF Len(prices) <= count THEN prices ELSE SubSeq(prices, 1, count)

\* prices.slice(-count)
LastOf(prices, count) ==
    IF Len(prices) <= count THEN prices
    ELSE SubSeq(prices, Len(prices) - count + 1, Len(prices))

\* "Ensure minimum range": the range is re-centred at 0.2% of currentMin
\* when it is narrower than that
EnsureMinimumRangeOff(t) == t

EnsureMinimumRange(t) ==
    LET minRange == DecScale(t.currentMin, 2, 3)
    IN  IF DecLt(t.currentMax, DecAdd(t.currentMin, minRange))
        THEN LET mid  == DecScale(DecAdd(t.currentMax, t.currentMin), 5, 1)
                 half == DecScale(minRange, 5, 1)
             IN  [t EXCEPT !.currentMin = DecSub(mid, half),
                           !.currentMax = DecAdd(mid, half)]
        ELSE t

\* "Smooth transition to new range": the 5th and 95th percentile of the
\* stored prices blended into the bounds with alpha = 0.1
BlendRange(t) ==
    LET p5  == KthSmallest(t.prices, (Len(t.prices) * 5) \div 100)
        p95 == KthSmallest(t.prices, (Len(t.prices) * 95) \div 100)
    IN  [t EXCEPT !.currentMin = DecAdd(DecScale(Dec(p5), 1, 1),
                                        DecScale(t.currentMin, 9, 1)),
                  !.currentMax = DecAdd(DecScale(Dec(p95), 1, 1),
                                        DecScale(t.currentMax, 9, 1))]

\* updatePriceTracker(price) at time `time`: the new tracker
UpdatePriceTracker(tracker, price, time) ==
    LET prices == LastOf(Append(tracker.prices, price), MAX_TRACKED_PRICES)
        t1     == [tracker EXCEPT !.prices = prices, !.lastUpdate = time]
        t2     == IF Len(prices) > 10 THEN EnsureMinimumRange(BlendRange(t1)) ELSE t1
    IN  [t2 EXCEPT !.currentMin = DecNorm(@), !.currentMax = DecNorm(@)]

\* the r in a .. b with 2r * span <= twice < (2r + 2) * span
RECURSIVE RoundedSteps(_, _, _, _)
RoundedSteps(span, twice, a, b) ==
    IF a = b THEN a
    ELSE LET m == (a + b + 1) \div 2
         IN  IF DecLe(DecScale(span, 2 * m, 0), twice)
             THEN RoundedSteps(span, twice, m, b)
             ELSE RoundedSteps(span, twice, a, m - 1)

\* priceToRawMidi(price) on the tracker `tracker`: the price clamped into
\* [currentMin, currentMax], interpolated into MIDI_RANGE and rounded with
\* Math.round, i.e. MIDI_RANGE.min + r for the r with
\* r <= ratio * (max - min) + 1/2 < r + 1
PriceToRawMidi(tracker, price) ==
    LET lo      == tracker.currentMin
        hi      == tracker.currentMax
        inner   == IF DecLt(hi, Dec(price)) THEN hi ELSE Dec(price)
        clamped == IF DecLt(inner, lo) THEN lo ELSE inner
        width   == MIDI_RANGE.max - MIDI_RANGE.min
        span    == DecSub(hi, lo)
        twice   == DecAdd(DecScale(DecSub(clamped, lo), 2 * width, 0), span)
    IN  MIDI_RANGE.min + RoundedSteps(span, twice, 0, width)

\* a faulty variant of priceToMidi: the raw pitch is not quantized
PriceToMidiRaw(tracker, price, scale) == PriceToRawMidi(tracker, price)

\* priceToMidi(price, scale)
PriceToMidi(tracker, price, scale) ==
    QuantizeToScale(PriceToRawMidi(tracker, price), scale, 0)

MAX_PATTERN_LENGTH == 50

\* addToPattern(price, direction) at time `time`
AddToPattern(history, price, direction, time) ==
    [prices     |-> LastOf(Append(history.prices, price), MAX_PATTERN_LENGTH),
     timestamps |-> LastOf(Append(history.timestamps, time), MAX_PATTERN_LENGTH),
     directions |-> LastOf(Append(history.directions, direction),
                           MAX_PATTERN_LENGTH)]

-----------------------------------------------------------------------------
(* Pattern window and pattern detector.                                    *)

\* a faulty variant: the analysis begins at 20 samples
CONFIGEarly ==
    [WINDOW_SIZE            |-> 60000,
     MIN_TICKS_FOR_ANALYSIS |-> 20,
     TREND_THRESHOLD        |-> Rat(1, 1000),
     CONSOLIDATION_RANGE    |-> Rat(5, 10000),
     REVERSAL_TICKS         |-> 10]

CONFIG ==
    [WINDOW_SIZE            |-> 60000,
     MIN_TICKS_FOR_ANALYSIS |-> 30,
     TREND_THRESHOLD        |-> Rat(1, 1000),
     CONSOLIDATION_RANGE    |-> Rat(5, 10000),
     REVERSAL_TICKS         |-> 10]

\* the resolution at which the volatility, the one irrational value of the
\* detector, is reported (rounded down); every comparison on it is exact
FP == 10 * 10

\* a variant that keeps the entry that is exactly one window old
CleanupInclusive(es, time) ==
    SelectSeq(es, LAMBDA e : e.timestamp >= time - CONFIG.WINDOW_SIZE)

\* PriceWindow.cleanup() at time `time`
Cleanup(es, time) ==
    SelectSeq(es, LAMBDA e : e.timestamp > time - CONFIG.WINDOW_SIZE)

\* PriceWindow.add(price, direction) at time `time`
WindowAdd(es, price, direction, time) ==
    Cleanup(Append(es, [price |-> price, timestamp |-> time,
                        direction |-> direction]), time)

\* entries.slice(from, to) with the negative indices of the source:
\* the entries from the from-th last up to, not including, the to-th last
SliceLast(es, from, to) ==
    SubSeq(es, Max2(Len(es) - from, 0) + 1, Len(es) - to)

PricesOf(es) == [i \in 1 .. Len(es) |-> es[i].price]

RECURSIVE SumOver(_, _, _)
\* the sum of (prices[j] - off), or of its square, over j in 1 .. i
SumOver(prices, off, i) ==
    IF i = 0 THEN 0 ELSE (prices[i] - off) + SumOver(prices, off, i - 1)
RECURSIVE SumSqOver(_, _, _)
SumSqOver(prices, off, i) ==
    IF i = 0 THEN 0
    ELSE (prices[i] - off) * (prices[i] - off) + SumSqOver(prices, off, i - 1)

\* calculateTrendStrength: clamp(((last - first) / first) / 0.01, -1, 1)
CalculateTrendStrength(es) ==
    IF Len(es) < 2 THEN RatZero
    ELSE LET first  == es[1].price
             last   == es[Len(es)].price
             change == Rat(last - first, first)
         IN  IF RatLe(Rat(1, 100), change) THEN RatOne
             ELSE IF RatLe(change, Rat(-1, 100)) THEN Rat(-1, 1)
             ELSE Rat(100 * change.n, change.d)

\* the square of (stdDev / mean) / ref, uncapped, as a quotient of BigNats.
\* With n prices of sum S, and D and Q the sum and the sum of squares of their
\* distances to the lowest price, the mean is S / n, the variance
\* (n * Q - D * D) / (n * n), so (stdDev / mean)^2 = (n * Q - D * D) / (S * S)
VolatilitySquared(es, refNum, refDen) ==
    LET prices == PricesOf(es)
        n      == Len(es)
        low    == CHOOSE v \in {prices[i] : i \in 1 .. n} :
                      \A i \in 1 .. n : v <= prices[i]
        S      == Big(SumOver(prices, 0, n))
        D      == Big(SumOver(prices, low, n))
        Q      == Big(SumSqOver(prices, low, n))
    IN  [num |-> BigMulS(BigMulS(BigSub(BigMulS(Q, n), BigMul(D, D)),
                                 refDen), refDen),
         den |-> BigMulS(BigMulS(BigMul(S, S), refNum), refNum)]

\* the reference misread as 5% instead of 0.5%
CalculateVolatilityLoose(es) ==
    IF Len(es) < 3 THEN [num |-> << >>, den |-> Big(1)]
    ELSE VolatilitySquared(es, 5, 100)

\* calculateVolatility: min(1, cv / 0.005), kept as the square of cv / 0.005
CalculateVolatility(es) ==
    IF Len(es) < 3 THEN [num |-> << >>, den |-> Big(1)]
    ELSE VolatilitySquared(es, 5, 1000)

\* volatility > a / b and volatility < a / b, for 0 <= a / b < 1
VolGt(vol, a, b) == BigLt(BigMulS(vol.den, a * a), BigMulS(vol.num, b * b))
VolLt(vol, a, b) == BigLt(BigMulS(vol.num, b * b), BigMulS(vol.den, a * a))

RECURSIVE VolFloor(_, _, _)
\* the largest k in lo .. hi with k / FP <= the volatility (lo is one)
VolFloor(vol, lo, hi) ==
    IF lo = hi THEN lo
    ELSE LET mid == (lo + hi + 1) \div 2
         IN  IF BigLe(BigMulS(vol.den, mid * mid),
                      BigMulS(BigMulS(vol.num, FP), FP))
             THEN VolFloor(vol, mid, hi)
             ELSE VolFloor(vol, lo, mid - 1)

\* a variant capped at 2 instead of 1
VolValueUncapped(vol) == Rat(VolFloor(vol, 0, 2 * FP), FP)

\* the volatility as the number the detector reports, rounded down to 1/FP
VolValue(vol) == Rat(VolFloor(vol, 0, FP), FP)

\* calculateLevels: the 10th and 90th percentile of the prices
CalculateLevels(es) ==
    IF Len(es) < 5
    THEN LET price == IF es = << >> THEN 0 ELSE es[Len(es)].price
         IN  [support |-> price, resistance |-> price]
    ELSE [support    |-> KthSmallest(PricesOf(es), Len(es) \div 10),
          resistance |-> KthSmallest(PricesOf(es), (Len(es) * 9) \div 10)]

\* detectReversal: "up", "down" or "null"
DetectReversal(es) ==
    IF Len(es) < CONFIG.REVERSAL_TICKS * 2 THEN "null"
    ELSE LET recent      == SliceLast(es, CONFIG.REVERSAL_TICKS, 0)
             prior       == SliceLast(es, CONFIG.REVERSAL_TICKS * 2,
                                      CONFIG.REVERSAL_TICKS)
             recentTrend == CalculateTrendStrength(recent)
             priorTrend  == CalculateTrendStrength(prior)
         IN  IF RatLt(priorTrend, Rat(-3, 10)) /\ RatLt(Rat(3, 10), recentTrend)
             THEN "up"
             ELSE IF RatLt(Rat(3, 10), priorTrend) /\
                     RatLt(recentTrend, Rat(-3, 10))
             THEN "down"
             ELSE "null"

\* a faulty variant of detectBreakout: a price on the threshold
\* counted as a breakout
DetectBreakoutInclusive(es) ==
    IF Len(es) < 10 THEN "null"
    ELSE LET prior == SliceLast(es, 30, 5)
         IN  IF Len(prior) < 10 THEN "null"
             ELSE LET levels    == CalculateLevels(prior)
                      lastPrice == es[Len(es)].price
                      range     == levels.resistance - levels.support
                  IN  IF 2 * lastPrice >= 2 * levels.resistance + range
                      THEN "up"
                      ELSE IF 2 * lastPrice <= 2 * levels.support - range
                      THEN "down"
                      ELSE "null"

\* detectBreakout: "up", "down" or "null"; breakoutThreshold = range * 0.5,
\* compared after doubling both sides
DetectBreakout(es) ==
    IF Len(es) < 10 THEN "null"
    ELSE LET prior == SliceLast(es, 30, 5)
         IN  IF Len(prior) < 10 THEN "null"
             ELSE LET levels    == CalculateLevels(prior)
                      lastPrice == es[Len(es)].price
                      range     == levels.resistance - levels.support
                  IN  IF 2 * lastPrice > 2 * levels.resistance + range
                      THEN "up"
                      ELSE IF 2 * lastPrice < 2 * levels.support - range
                      THEN "down"
                      ELSE "null"

\* a variant in which the breakout does not preempt the slower patterns
SharpSignalNoBreakout(reversal, breakout) ==
    IF reversal # "null" THEN "reversal_" \o reversal ELSE "none"

\* the priority order checked the wrong way round
SharpSignalBreakoutFirst(reversal, breakout) ==
    IF breakout # "null" THEN "breakout_" \o breakout
    ELSE IF reversal # "null" THEN "reversal_" \o reversal
    ELSE "none"

\* "Detect specific patterns in priority order": the reversal, if any, is
\* returned before the breakout is looked at
SharpSignal(reversal, breakout) ==
    IF reversal # "null" THEN "reversal_" \o reversal
    ELSE IF breakout # "null" THEN "breakout_" \o breakout
    ELSE "none"

\* a variant with 100 ms per sample
SampleDurationDouble(n) == n * 100

\* duration: entries.length * 50
SampleDuration(n) == n * 50

\* detectPattern() on the cleaned-up entries
DetectPattern(es) ==
    IF Len(es) < CONFIG.MIN_TICKS_FOR_ANALYSIS
    THEN [type |-> "neutral", strength |-> RatZero, duration |-> 0,
          data |-> [trendStrength |-> RatZero, volatility |-> RatZero,
                    priceChangePercent |-> RatZero, supportLevel |-> 0,
                    resistanceLevel |-> 0, tickCount |-> Len(es)]]
    ELSE
    LET trendStrength == CalculateTrendStrength(es)
        vol           == CalculateVolatility(es)
        volatility    == VolValue(vol)
        levels        == CalculateLevels(es)
        firstPrice    == es[1].price
        lastPrice     == es[Len(es)].price
        priceChangePercent == Rat(lastPrice - firstPrice, firstPrice)
        data == [trendStrength |-> trendStrength, volatility |-> volatility,
                 priceChangePercent |-> priceChangePercent,
                 supportLevel |-> levels.support,
                 resistanceLevel |-> levels.resistance,
                 tickCount |-> Len(es)]
        sharp == SharpSignal(DetectReversal(es), DetectBreakout(es))
        rangePercent == Rat(levels.resistance - levels.support, lastPrice)
    IN  IF sharp \in {"reversal_up", "reversal_down"}
        THEN [type |-> sharp, strength |-> RatAbs(trendStrength),
              duration |-> CONFIG.REVERSAL_TICKS * 100, data |-> data]
        ELSE IF sharp \in {"breakout_up", "breakout_down"}
        THEN [type |-> sharp, strength |-> Rat(9, 10), duration |-> 5000,
              data |-> data]
        ELSE IF VolGt(vol, 7, 10)
        THEN [type |-> "high_volatility", strength |-> volatility,
              duration |-> SampleDuration(Len(es)), data |-> data]
        ELSE IF RatLt(CONFIG.TREND_THRESHOLD, priceChangePercent) /\
                RatLt(Rat(1, 2), trendStrength)
        THEN [type |-> "strong_uptrend", strength |-> trendStrength,
              duration |-> SampleDuration(Len(es)), data |-> data]
        ELSE IF RatLt(priceChangePercent,
                      Rat(-CONFIG.TREND_THRESHOLD.n, CONFIG.TREND_THRESHOLD.d)) /\
                RatLt(trendStrength, Rat(-1, 2))
        THEN [type |-> "strong_downtrend", strength |-> RatAbs(trendStrength),
              duration |-> SampleDuration(Len(es)), data |-> data]
        ELSE IF RatLt(rangePercent, CONFIG.CONSOLIDATION_RANGE) /\
                VolLt(vol, 3, 10)
        THEN [type |-> "consolidation",
              strength |-> Rat(FP - volatility.n, FP),
              duration |-> SampleDuration(Len(es)), data |-> data]
        ELSE [type |-> "neutral", strength |-> Rat(1, 2),
              duration |-> SampleDuration(Len(es)), data |-> data]

-----------------------------------------------------------------------------
(* Harmony engine.                                                         *)

PatternTypes ==
    {"strong_uptrend", "strong_downtrend", "high_volatility", "consolidation",
     "reversal_up", "reversal_down", "breakout_up", "breakout_down", "neutral"}

PROGRESSIONS ==
    [majorResolution |-> <<0, 5, 7, 0>>,
     minorResolution |-> <<0, 5, 7, 0>>,
     jazzCadence     |-> <<2, 7, 0>>,
     popProgression  |-> <<0, 7, 9, 5>>,
     epicMinor       |-> <<0, 10, 8, 10>>,
     classicMajor    |-> <<0, 9, 5, 7>>,
     chromaticDown   |-> <<0, -1, -2, -3>>,
     fifthsUp        |-> <<0, 7, 2, 9>>]

HARMONY_RULES ==
    [strong_uptrend |->
        [chordQualities |-> <<"major7", "major", "augmented">>,
         progression |-> PROGRESSIONS.majorResolution,
         rhythm |-> "medium", arpeggioDirection |-> "up"],
     strong_downtrend |->
        [chordQualities |-> <<"minor7", "minor", "diminished">>,
         progression |-> PROGRESSIONS.epicMinor,
         rhythm |-> "medium", arpeggioDirection |-> "down"],
     high_volatility |->
        [chordQualities |-> <<"dominant7", "augmented", "diminished">>,
         progression |-> PROGRESSIONS.chromaticDown,
         rhythm |-> "fast", arpeggioDirection |-> "random"],
     consolidation |->
        [chordQualities |-> <<"suspended", "major", "minor">>,
         progression |-> <<0, 0, 0, 0>>,
         rhythm |-> "slow", arpeggioDirection |-> "none"],
     reversal_up |->
        [chordQualities |-> <<"dominant7", "major">>,
         progression |-> PROGRESSIONS.jazzCadence,
         rhythm |-> "medium", arpeggioDirection |-> "up"],
     reversal_down |->
        [chordQualities |-> <<"minor7", "diminished">>,
         progression |-> PROGRESSIONS.minorResolution,
         rhythm |-> "medium", arpeggioDirection |-> "down"],
     breakout_up |->
        [chordQualities |-> <<"major", "augmented", "major7">>,
         progression |-> PROGRESSIONS.fifthsUp,
         rhythm |-> "fast", arpeggioDirection |-> "up"],
     breakout_down |->
        [chordQualities |-> <<"minor", "diminished", "minor7">>,
         progression |-> PROGRESSIONS.chromaticDown,
         rhythm |-> "fast", arpeggioDirection |-> "down"],
     neutral |->
        [chordQualities |-> <<"major", "minor", "suspended">>,
         progression |-> PROGRESSIONS.popProgression,
         rhythm |-> "slow", arpeggioDirection |-> "none"]]

GetHarmonyRule(pattern) == HARMONY_RULES[pattern]

\* a faulty variant: the pattern strength stored as it is
IntensityOfRaw(type, strength) == strength

\* the intensity of updateHarmony: strength + 0.3 capped at 1 for breakouts,
\* strength - 0.2 floored at 0.2 for consolidation, the strength otherwise
IntensityOf(type, strength) ==
    IF type \in {"breakout_up", "breakout_down"}
    THEN (IF 10 * strength.n + 3 * strength.d >= 10 * strength.d
          THEN RatOne
          ELSE Rat(10 * strength.n + 3 * strength.d, 10 * strength.d))
    ELSE IF type = "consolidation"
    THEN (IF 10 * strength.n - 2 * strength.d <= 2 * strength.d
          THEN Rat(2, 10)
          ELSE Rat(10 * strength.n - 2 * strength.d, 10 * strength.d))
    ELSE strength

\* a faulty variant: strength * count rounded to nearest, not down
QualityIndexRounded(strength, count) ==
    Min2((2 * strength.n * count + strength.d) \div (2 * strength.d), count - 1)

\* Math.min(Math.floor(pattern.strength * count), count - 1)
QualityIndex(strength, count) ==
    Min2((strength.n * count) \div strength.d, count - 1)

\* a faulty variant of updateHarmony: the step taken modulo the
\* length of the progression stored in the state, not the rule's
UpdateHarmonyStoredLength(state, pattern, basePitch) ==
    LET rule == GetHarmonyRule(pattern.type)
        count == Len(rule.chordQualities)
        qualityIndex == QualityIndex(pattern.strength, count)
        newProgressionIndex ==
            (state.progressionIndex + 1) % Len(state.progression)
    IN  [currentChord     |-> rule.chordQualities[qualityIndex + 1],
         chordRoot        |-> basePitch + rule.progression[
                                  Min2(newProgressionIndex,
                                       Len(rule.progression) - 1) + 1],
         progression      |-> rule.progression,
         progressionIndex |-> newProgressionIndex,
         intensity        |-> IntensityOf(pattern.type, pattern.strength)]

\* a faulty variant of updateHarmony: the step taken modulo 4, the length
\* of most progressions, not the rule's
UpdateHarmonyWrapsAtFour(state, pattern, basePitch) ==
    LET rule == GetHarmonyRule(pattern.type)
        count == Len(rule.chordQualities)
        qualityIndex == QualityIndex(pattern.strength, count)
        newProgressionIndex == (state.progressionIndex + 1) % 4
    IN  [currentChord     |-> rule.chordQualities[qualityIndex + 1],
         chordRoot        |-> basePitch + rule.progression[
                                  Min2(newProgressionIndex,
                                       Len(rule.progression) - 1) + 1],
         progression      |-> rule.progression,
         progressionIndex |-> newProgressionIndex,
         intensity        |-> IntensityOf(pattern.type, pattern.strength)]

\* updateHarmony(pattern, basePitch) on the harmony state: the new state.
\* Indices of the source are 0-based, sequences are 1-based.
UpdateHarmony(state, pattern, basePitch) ==
    LET rule == GetHarmonyRule(pattern.type)
        count == Len(rule.chordQualities)
        qualityIndex == QualityIndex(pattern.strength, count)
        newProgressionIndex ==
            (state.progressionIndex + 1) % Len(rule.progression)
        progressionInterval == rule.progression[newProgressionIndex + 1]
    IN  [currentChord     |-> rule.chordQualities[qualityIndex + 1],
         chordRoot        |-> basePitch + progressionInterval,
         progression      |-> rule.progression,
         progressionIndex |-> newProgressionIndex,
         intensity        |-> IntensityOf(pattern.type, pattern.strength)]

ChordQualities ==
    {"major", "minor", "major7", "minor7", "dominant7", "diminished",
     "augmented", "suspended"}

CHORD_INTERVALS ==
    [major      |-> <<0, 4, 7>>,
     minor      |-> <<0, 3, 7>>,
     major7     |-> <<0, 4, 7, 11>>,
     minor7     |-> <<0, 3, 7, 10>>,
     dominant7  |-> <<0, 4, 7, 10>>,
     diminished |-> <<0, 3, 6>>,
     augmented  |-> <<0, 4, 8>>,
     suspended  |-> <<0, 5, 7>>]

\* getChordNotes(rootMidi, quality, voicing); index in the source is i - 1
GetChordNotes(rootMidi, quality, voicing) ==
    LET intervals == CHORD_INTERVALS[quality]
    IN  [i \in 1 .. Len(intervals) |->
            IF voicing = "close" THEN rootMidi + intervals[i]
            ELSE rootMidi + intervals[i] + (IF (i - 1) % 2 = 0 THEN 0 ELSE 12)]

\* the validNotes of getArpeggioNotes: the spread chord an octave below, in
\* place and an octave above, kept within 36..96 and sorted
ValidNotes(rootMidi, quality) ==
    LET baseNotes == GetChordNotes(rootMidi, quality, "spread")
        k         == Len(baseNotes)
        extended  == [i \in 1 .. 3 * k |->
                         baseNotes[((i - 1) % k) + 1] + (((i - 1) \div k) - 1) * 12]
    IN  SortSeq(SelectSeq(extended, LAMBDA n : n >= 36 /\ n <= 96),
                LAMBDA a, b : a < b)

\* the results getArpeggioNotes(rootMidi, quality, direction, count) can
\* return: one for "up", "down" and "none"; for "random" every choice of
\* the first `count` notes of a shuffle
GetArpeggioNotes(rootMidi, quality, direction, count) ==
    LET validNotes == ValidNotes(rootMidi, quality)
        n          == Len(validNotes)
        k          == Min2(count, n)
    IN  CASE direction = "none" -> {<< >>}
          [] direction = "up"   -> {SubSeq(validNotes, 1, k)}
          [] direction = "down" ->
                \* slice(-count): the last `count` notes, but the whole
                \* array when count is 0 (-0 is 0)
                LET m == IF count = 0 THEN n ELSE k
                IN  {[i \in 1 .. m |-> validNotes[n + 1 - i]]}
          [] direction = "random" ->
                {[i \in 1 .. k |-> validNotes[f[i]]] :
                    f \in {g \in [1 .. k -> 1 .. n] :
                              \A i, j \in 1 .. k : i # j => g[i] # g[j]}}

\* getRhythmTiming(rhythm), ms per chord
GetRhythmTiming(rhythm) ==
    CASE rhythm = "slow" -> 4000 [] rhythm = "medium" -> 2000
      [] rhythm = "fast" -> 1000

\* getHarmonyDescription(): the chord and Math.round(intensity * 100)
GetHarmonyDescription(state) ==
    [chord   |-> state.currentChord,
     percent |-> (200 * state.intensity.n + state.intensity.d)
                     \div (2 * state.intensity.d)]

-----------------------------------------------------------------------------
(* Bounds of the model and the inputs the operations are tried on.         *)

MaxMidi == 60          \* pitches 0..MaxMidi are quantized
MaxFeed == 4           \* ticks fed to the tick analyzer
StartTime == 100000    \* the clock's value when the page loads
MaxHarmonyCalls == 5   \* updateHarmony calls between two resets
MaxTracked == 13       \* prices fed to the tracker between two resets

Roots == 0 .. 11
\* 100, 100.0001, 100.0002, 100.6 and the two prices exactly 0.5% away from
\* 100, written in units of 10^-4 (the analyzer uses the ratio of prices only)
TickPrices == {995000, 1000000, 1000001, 1000002, 1005000, 1006000}
\* pattern strengths and base pitches handed to updateHarmony
Strengths == {Rat(0, 1), Rat(1, 10), Rat(1, 2), Rat(9, 10), Rat(1, 1)}
\* the directions and counts getArpeggioNotes is called with
ArpeggioInputs == {<<"up", 4>>, <<"down", 4>>, <<"none", 4>>, <<"random", 1>>}
BasePitches == {40, 52}
\* getArpeggioNotes called directly: roots from below to above the range
\* 36..96, every chord quality and direction, counts from 0
MaxCount == 2
ArpeggioRoots == {20, 36, 60, 84, 100, 108, 110}
ArpeggioDirections == {"up", "down", "random", "none"}
\* prices fed to the tracker: so far above the default range that the range
\* narrows to the 0.2% floor within a few updates, and 0.1% apart
TrackerPrices == {100000000, 100100000}

MaxWindowTicks == 40   \* samples fed to the pattern window
MaxAppends == 3        \* entries appended to a window that is read directly
\* the clock moves by half a window or a whole one, up to three windows
ClockSteps == {CONFIG.WINDOW_SIZE \div 2, CONFIG.WINDOW_SIZE}
ClockEnd == StartTime + 3 * CONFIG.WINDOW_SIZE
SegLen == 10           \* samples for which the feed keeps to one kind of move
TickGap == 1000        \* ms between two samples
StartPrice == 100000   \* the first sample
WindowPrices == {StartPrice, StartPrice + 100}
\* a session under the user's control: few trades, at one of two prices
MaxTrades == 3         \* trade messages received
MaxProcessed == 4      \* handlePriceTick runs
MaxLegacyCalls == 2    \* calls of the legacy analyzePriceChange
SessionPrices == {StartPrice, StartPrice + 100}
SessionScales == {"pentatonic", "chromatic"}
\* the feeds played to the engine
\* prices pitched directly, far below and far above any range, in the
\* scales other than the default one the feed is played in
PitchPrices == {1, 2 * StartPrice}
PitchScales == ScaleTypes \ {"pentatonic"}
EngineKinds == {"alt", "up10", "down10"}
MaxEngineTicks == 33    \* trades of a feed played to the engine
AllComponents ==
    {"priceAnalysis", "priceTracker", "patternDetector", "patternHistory",
     "harmony"}
\* the feed's moves: hold, alternate between a price and the price 0.03%
\* above it, or step by 0.05% or 0.1% of the last price
Kinds == {"flat", "alt", "up5", "down5", "up10", "down10"}

\* the n-th sample of a feed making the move `kind` since the price `base`,
\* the previous sample being `last`
NextPrice(kind, base, last, n) ==
    IF n = 1 THEN StartPrice
    ELSE CASE kind = "flat"   -> last
           [] kind = "alt"    -> IF n % 2 = 0
                                 THEN base + (3 * base + 5000) \div 10000
                                 ELSE base
           [] kind = "up5"    -> last + (last + 1000) \div 2000
           [] kind = "down5"  -> last - (last + 1000) \div 2000
           [] kind = "up10"   -> last + (last + 500) \div 1000
           [] kind = "down10" -> last - (last + 500) \div 1000

-----------------------------------------------------------------------------
(* State.                                                                  *)

InitHarmony ==
    [currentChord |-> "major", chordRoot |-> 60, progression |-> <<0>>,
     progressionIndex |-> 0, intensity |-> Rat(1, 2)]

\* the hook's DEFAULT_AUDIO_STATE, as far as playTick reads it
\* (pad stands for layerVolumes.pad > 0)
DEFAULT_AUDIO_STATE ==
    [enabled |-> FALSE, muted |-> FALSE, scale |-> "pentatonic", pad |-> TRUE]

InitPatternHistory ==
    [prices |-> << >>, timestamps |-> << >>, directions |-> << >>]

\* a feed long enough to overflow the tracker: the two ends of the default range,
\* alternating for the first LongFeedFixed samples and free afterwards
LongFeedPrices == <<DEFAULT_PRICE_RANGE.min, DEFAULT_PRICE_RANGE.max>>
LongFeedFixed == 998
MaxLongFeed == 1003

\* trade messages arriving at uneven intervals
ThrottleGaps == {500, 1000, 1500}
MaxThrottleTicks == 7

\* a burst of trades, each played as a note
VoiceGap == 5
MaxVoiceTicks == 30

MaxPercussionCalls == 3

\* a window filled tick by tick and then left alone: the feed pauses for one
\* window, or for 1 ms less
MaxDrainTicks == 31
DrainPauses == {CONFIG.WINDOW_SIZE - 1, CONFIG.WINDOW_SIZE}
DrainEnd == StartTime + MaxDrainTicks * TickGap + CONFIG.WINDOW_SIZE

-----------------------------------------------------------------------------
(* RSI bell hook.                                                          *)

RSI_PERIOD == 14
RSI_OVERSOLD == 20
RSI_OVERBOUGHT == 80
RSI_EXIT == 50
SOUND_THROTTLE_MS == 150

RECURSIVE SumGains(_, _, _)
\* the sum of the rises (sign = 1) or of the falls (sign = -1) over the
\* deltas prices[i] - prices[i - 1] for i in from .. Len(prices)
SumGains(prices, from, sign) ==
    IF from > Len(prices) THEN 0
    ELSE Max2(sign * (prices[from] - prices[from - 1]), 0)
             + SumGains(prices, from + 1, sign)

\* calculateRsi(prices, period): 100 - 100 / (1 + avgGain / avgLoss), which
\* is 100 * gains / (gains + losses), over the last `period` deltas
CalculateRsi(prices, period) ==
    IF Len(prices) < period + 1 THEN Rat(50, 1)
    ELSE LET from   == Len(prices) - period + 1
             gains  == SumGains(prices, from, 1)
             losses == SumGains(prices, from, -1)
         IN  IF losses = 0 THEN Rat(100, 1)
             ELSE Rat(100 * gains, gains + losses)

\* the exit branch: "Don't play sound on exit, just stop"
ExitRingsBell == TRUE
ExitPlaysBell == FALSE

InitBell ==
    [enabled |-> FALSE, muted |-> FALSE, isReady |-> FALSE,
     priceHistory |-> << >>, currentRsi |-> Rat(50, 1), position |-> None,
     lastPnlPercent |-> RatZero, totalTrades |-> 0, wins |-> 0, losses |-> 0,
     lastSoundTime |-> 0]

\* the bell feed: BellWarmup falling ticks, then ticks that fall by 1 or
\* rise by 6, 100 or 200 ms apart
BellWarmup == 14
MaxBellTicks == 21
BellMoves == {-1, 6}
BellGaps == {100, 200}
BellMovesWide == {-30, -1, 6}

-----------------------------------------------------------------------------
(* Feed hook (useBinanceWebSocket): connection and reconnection.           *)

MAX_RECONNECT_DELAY == 30000
INITIAL_RECONNECT_DELAY == 1000

\* connection failures (closes of a live socket, throwing constructors) the
\* network produces in one run
MaxFailures == 7

\* sockets is the list of the WebSockets created, each "connecting", "open",
\* "closing" or "closed"; timers is the set of pending setTimeout callbacks.
\* History: attempts counts the `new WebSocket` evaluations, restFetches the
\* fetchRestPrice calls, failures the failures so far, closesSinceOpen the
\* onclose runs since the last onopen, retry what failure no attempt has
\* followed yet, socketsAtUnmount the sockets that existed at unmount.
InitWsHook ==
    [mounted |-> "initial",
     status |-> "connecting", reconnectAttempts |-> 0,
     wsRef |-> None, sockets |-> << >>,
     reconnectTimeoutRef |-> None, timers |-> {}, timerCount |-> 0,
     reconnectDelayRef |-> INITIAL_RECONNECT_DELAY,
     attempts |-> 0, restFetches |-> 0, failures |-> 0, closesSinceOpen |-> 0,
     retry |-> "none", socketsAtUnmount |-> 0]

\* a variant without the cap
ReconnectDelayUncapped(current) == current

\* Math.min(reconnectDelayRef.current, MAX_RECONNECT_DELAY)
ReconnectDelay(current) == Min2(current, MAX_RECONNECT_DELAY)

\* setConnectionState(prev => ({...prev, status})): nothing once unmounted
SetStatus(h, status) ==
    IF h.mounted = "mounted" THEN [h EXCEPT !.status = status] ELSE h

\* fetchRestPrice(): the request is issued
FetchRestPrice(h) == [h EXCEPT !.restFetches = @ + 1]

\* connect(), the WebSocket constructor throwing or not
Connect(h, throws) ==
    IF h.wsRef # None /\ h.sockets[h.wsRef[1]] = "open"
    THEN h
    ELSE LET h1 == [SetStatus(h, "connecting") EXCEPT !.attempts = @ + 1,
                                                       !.retry = "none"]
         IN  IF throws
             THEN [FetchRestPrice(SetStatus(h1, "error")) EXCEPT
                       !.failures = @ + 1,
                       !.retry = IF h.mounted = "mounted" THEN "throw" ELSE "none"]
             ELSE [h1 EXCEPT !.sockets = Append(@, "connecting"),
                             !.wsRef = Some(Len(h.sockets) + 1)]

\* ws.onopen
OnOpen(h) ==
    [(IF h.mounted = "mounted"
      THEN [h EXCEPT !.status = "connected", !.reconnectAttempts = 0]
      ELSE h) EXCEPT
        !.reconnectDelayRef = INITIAL_RECONNECT_DELAY,
        !.closesSinceOpen = 0]

\* ws.onerror
OnError(h) == SetStatus(h, "error")

\* ws.onclose: the reconnect timer is set and the REST fallback is called
OnClose(h) ==
    LET h1 == IF h.mounted = "mounted"
              THEN [h EXCEPT !.status = "disconnected",
                             !.reconnectAttempts = @ + 1]
              ELSE h
        timer == [id |-> h.timerCount + 1,
                  delay |-> ReconnectDelay(h.reconnectDelayRef),
                  k |-> h.closesSinceOpen + 1]
    IN  FetchRestPrice([h1 EXCEPT !.timers = @ \cup {timer},
                                  !.timerCount = @ + 1,
                                  !.reconnectTimeoutRef = Some(timer.id),
                                  !.closesSinceOpen = @ + 1,
                                  !.retry = IF h.mounted = "mounted"
                                            THEN "close" ELSE @])

\* the effect's cleanup: clearTimeout(reconnectTimeoutRef.current) and
\* wsRef.current.close()
EffectCleanup(h) ==
    LET cleared == IF h.reconnectTimeoutRef = None THEN h.timers
                   ELSE {t \in h.timers : t.id # h.reconnectTimeoutRef[1]}
        sockets == IF h.wsRef # None /\
                      h.sockets[h.wsRef[1]] \in {"connecting", "open"}
                   THEN [h.sockets EXCEPT ![h.wsRef[1]] = "closing"]
                   ELSE h.sockets
    IN  [h EXCEPT !.mounted = "unmounted", !.timers = cleared,
                  !.sockets = sockets, !.retry = "none",
                  !.socketsAtUnmount = Len(h.sockets)]

InitTracker ==
    [prices |-> << >>, lastUpdate |-> 0,
     currentMin |-> Dec(DEFAULT_PRICE_RANGE.min),
     currentMax |-> Dec(DEFAULT_PRICE_RANGE.max)]

InitState ==
    /\ now = StartTime
    /\ lastPriceRef = None
    /\ emaPrice = None
    /\ priceTracker = InitTracker
    /\ entries = << >>
    /\ harmonyState = InitHarmony
    /\ fed = << >>
    /\ out = << >>
    /\ streak = [type |-> "none", n |-> 0, prevIndex |-> 0]
    /\ feed = [kind |-> "flat", base |-> StartPrice]
    /\ lastTriggerTime = 0
    /\ patternHistory = InitPatternHistory
    /\ audioState = DEFAULT_AUDIO_STATE
    /\ isReady = FALSE
    /\ lastHarmonyUpdateRef = 0
    /\ lastBassUpdateRef = 0
    /\ lastPadUpdateRef = 0
    /\ tickTimestampsRef = << >>
    /\ lastDirectionRef = "neutral"
    /\ activeVoicesRef = 0
    /\ voiceTimers = 0
    /\ bell = InitBell
    /\ wsHook = InitWsHook
    /\ tradePrice = None
    /\ delivered = << >>
    /\ processed = << >>
    /\ disabledBefore = FALSE
    /\ resetDone = {}

Init == InitState /\ ret = [op |-> "init"]

\* the quantizer's inputs are drawn when the run starts
InitScale ==
    /\ InitState
    /\ ret \in [op : {"pending"}, midiNote : 0 .. MaxMidi, scale : ScaleTypes,
                rootNote : Roots]

-----------------------------------------------------------------------------
(* Operations.                                                             *)

\* the call quantizeToScale(midiNote, scale, rootNote) on the drawn inputs
QuantizeCall ==
    /\ ret.op = "pending"
    /\ ret' = [op |-> "quantizeToScale", midiNote |-> ret.midiNote,
               scale |-> ret.scale, rootNote |-> ret.rootNote,
               result |-> QuantizeToScale(ret.midiNote, ret.scale, ret.rootNote)]
    /\ UNCHANGED <<sessionVars, resetDone, now, lastPriceRef, emaPrice, priceTracker, entries,
                   harmonyState, fed, out, streak, feed>>

RECURSIVE BigToInt(_)
BigToInt(a) == IF a = << >> THEN 0 ELSE Head(a) + BigBase * BigToInt(Tail(a))

\* a variant that measures the change against the moving average
AnalyzeTickAgainstEma ==
    \E currentPrice \in TickPrices :
        /\ Len(fed) < MaxFeed
        /\ LET change ==
                   IF emaPrice = None
                   THEN PriceChangeOf(currentPrice, None)
                   ELSE LET e == emaPrice[1]
                            num == BigToInt(e.num)
                            percentChange ==
                                Rat(BigToInt(BigShift10(Big(currentPrice), e.exp)) - num, num)
                        IN  [direction     |-> DirectionOf(percentChange),
                             magnitude     |-> MagnitudeOf(RatAbs(percentChange)),
                             percentChange |-> percentChange]
           IN  /\ out' = Append(out, change)
               /\ ret' = [op |-> "analyzePriceChangeImmediate", change |-> change]
        /\ emaPrice' = EmaAfter(emaPrice, currentPrice, lastPriceRef)
        /\ fed' = Append(fed, currentPrice)
        /\ lastPriceRef' = Some(currentPrice)
        /\ resetDone' = resetDone \ {"priceAnalysis"}
        /\ UNCHANGED <<sessionVars, now, priceTracker, entries, harmonyState, streak, feed>>

\* the page's handler calling analyzePriceChangeImmediate(price, lastPriceRef)
\* and remembering the price as the next call's previous price
AnalyzeTick ==
    \E currentPrice \in TickPrices :
        /\ Len(fed) < MaxFeed
        /\ LET change == PriceChangeOf(currentPrice, lastPriceRef)
           IN  /\ out' = Append(out, change)
               /\ ret' = [op |-> "analyzePriceChangeImmediate", change |-> change]
        /\ emaPrice' = EmaAfter(emaPrice, currentPrice, lastPriceRef)
        /\ fed' = Append(fed, currentPrice)
        /\ lastPriceRef' = Some(currentPrice)
        /\ resetDone' = resetDone \ {"priceAnalysis"}
        /\ UNCHANGED <<sessionVars, now, priceTracker, entries, harmonyState, streak, feed>>

\* a call updateHarmony(pattern, basePitch)
UpdateHarmonyCall ==
    \E type \in PatternTypes, strength \in Strengths, basePitch \in BasePitches :
        /\ streak.n < MaxHarmonyCalls
        /\ LET pattern == [type |-> type, strength |-> strength]
               state   == UpdateHarmony(harmonyState, pattern, basePitch)
           IN  /\ harmonyState' = state
               /\ ret' = [op |-> "updateHarmony", pattern |-> pattern,
                          basePitch |-> basePitch, state |-> state]
        /\ streak' = [type |-> IF streak.n = 0 \/ streak.type = type
                               THEN type ELSE "mixed",
                      n |-> streak.n + 1,
                      prevIndex |-> harmonyState.progressionIndex]
        /\ resetDone' = resetDone \ {"harmony"}
        /\ UNCHANGED <<sessionVars, now, lastPriceRef, emaPrice, priceTracker, entries,
                       fed, out, feed>>

\* resetHarmony()
ResetHarmony ==
    /\ harmonyState' = InitHarmony
    /\ streak' = [type |-> "none", n |-> 0, prevIndex |-> 0]
    /\ ret' = [op |-> "resetHarmony"]
    /\ resetDone' = resetDone \cup {"harmony"}
    /\ UNCHANGED <<sessionVars, now, lastPriceRef, emaPrice, priceTracker, entries, fed, out, feed>>

\* getHarmonyState(): a copy of the state
GetHarmonyStateCall ==
    /\ ret' = [op |-> "getHarmonyState", state |-> harmonyState]
    /\ UNCHANGED <<sessionVars, resetDone, now, lastPriceRef, emaPrice, priceTracker, entries,
                   harmonyState, fed, out, streak, feed>>

\* getHarmonyRule(pattern)
GetHarmonyRuleCall ==
    \E type \in PatternTypes :
        /\ ret' = [op |-> "getHarmonyRule", rule |-> GetHarmonyRule(type)]
        /\ UNCHANGED <<sessionVars, resetDone, now, lastPriceRef, emaPrice, priceTracker, entries,
                       harmonyState, fed, out, streak, feed>>

\* getChordNotes on the current chord, in either voicing
GetChordNotesCall ==
    \E voicing \in {"close", "spread"} :
        /\ ret' = [op |-> "getChordNotes",
                   notes |-> GetChordNotes(harmonyState.chordRoot,
                                           harmonyState.currentChord, voicing)]
        /\ UNCHANGED <<sessionVars, resetDone, now, lastPriceRef, emaPrice, priceTracker, entries,
                       harmonyState, fed, out, streak, feed>>

\* getArpeggioNotes on the current chord
GetArpeggioNotesCall ==
    \E input \in ArpeggioInputs :
        \E notes \in GetArpeggioNotes(harmonyState.chordRoot,
                                      harmonyState.currentChord,
                                      input[1], input[2]) :
            /\ ret' = [op |-> "getArpeggioNotes", direction |-> input[1],
                       notes |-> notes]
            /\ UNCHANGED <<sessionVars, resetDone, now, lastPriceRef, emaPrice, priceTracker, entries,
                           harmonyState, fed, out, streak, feed>>

\* getArpeggioNotes(rootMidi, quality, direction, count) on the arguments
\* drawn when the run starts
ArpeggioCall ==
    /\ ret.op = "arpeggioPending"
    /\ \E notes \in GetArpeggioNotes(ret.rootMidi, ret.quality, ret.direction,
                                      ret.count) :
           ret' = [op |-> "getArpeggioNotesOf", rootMidi |-> ret.rootMidi,
                   quality |-> ret.quality, direction |-> ret.direction,
                   count |-> ret.count, notes |-> notes]
    /\ UNCHANGED <<sessionVars, resetDone, now, lastPriceRef, emaPrice,
                   priceTracker, entries, harmonyState, fed, out, streak, feed>>

\* getRhythmTiming(rhythm)
GetRhythmTimingCall ==
    \E rhythm \in {"slow", "medium", "fast"} :
        /\ ret' = [op |-> "getRhythmTiming", ms |-> GetRhythmTiming(rhythm)]
        /\ UNCHANGED <<sessionVars, resetDone, now, lastPriceRef, emaPrice, priceTracker, entries,
                       harmonyState, fed, out, streak, feed>>

\* a faulty variant of getHarmonyDescription(): the rounded intensity is
\* written back to the state
GetHarmonyDescriptionStores ==
    /\ ret' = [op |-> "getHarmonyDescription",
               text |-> GetHarmonyDescription(harmonyState)]
    /\ harmonyState' =
           [harmonyState EXCEPT
               !.intensity = Rat(GetHarmonyDescription(harmonyState).percent, 100)]
    /\ UNCHANGED <<sessionVars, resetDone, now, lastPriceRef, emaPrice, priceTracker, entries,
                   fed, out, streak, feed>>

\* getHarmonyDescription()
GetHarmonyDescriptionCall ==
    /\ ret' = [op |-> "getHarmonyDescription",
               text |-> GetHarmonyDescription(harmonyState)]
    /\ UNCHANGED <<sessionVars, resetDone, now, lastPriceRef, emaPrice, priceTracker, entries,
                   harmonyState, fed, out, streak, feed>>

\* a call updatePriceTracker(price)
UpdatePriceTrackerCall ==
    \E price \in TrackerPrices :
        /\ Len(priceTracker.prices) < MaxTracked
        /\ priceTracker' = UpdatePriceTracker(priceTracker, price, now)
        /\ ret' = [op |-> "updatePriceTracker", price |-> price,
                   before |-> [currentMin |-> priceTracker.currentMin,
                               currentMax |-> priceTracker.currentMax]]
        /\ resetDone' = resetDone \ {"priceTracker"}
        /\ UNCHANGED <<sessionVars, now, lastPriceRef, emaPrice, entries, harmonyState,
                       fed, out, streak, feed>>

\* a faulty variant of resetPriceTracker(): the adapted range is kept
ResetPriceTrackerKeepsRange ==
    /\ priceTracker' = [priceTracker EXCEPT !.prices = << >>, !.lastUpdate = 0]
    /\ ret' = [op |-> "resetPriceTracker"]
    /\ resetDone' = resetDone \cup {"priceTracker"}
    /\ UNCHANGED <<sessionVars, now, lastPriceRef, emaPrice, entries, harmonyState,
                   fed, out, streak, feed>>

\* resetPriceTracker()
ResetPriceTracker ==
    /\ priceTracker' = InitTracker
    /\ ret' = [op |-> "resetPriceTracker"]
    /\ resetDone' = resetDone \cup {"priceTracker"}
    /\ UNCHANGED <<sessionVars, now, lastPriceRef, emaPrice, entries, harmonyState,
                   fed, out, streak, feed>>

\* one sample of the feed: addPriceToWindow(price, change) stores it at the
\* current time, change.direction being that of the move from the previous
\* sample
WindowTick ==
    \E kind \in IF Len(fed) % SegLen = 0 THEN Kinds ELSE {feed.kind} :
        /\ Len(fed) < MaxWindowTicks
        /\ LET last   == IF fed = << >> THEN StartPrice ELSE fed[Len(fed)]
               base   == IF kind = feed.kind THEN feed.base ELSE last
               price  == NextPrice(kind, base, last, Len(fed) + 1)
               change == IF fed = << >> THEN RatZero
                         ELSE Rat(price - last, last)
           IN  /\ feed' = [kind |-> kind, base |-> base]
               /\ now' = now + TickGap
               /\ entries' = WindowAdd(entries, price, DirectionOf(change), now')
               /\ fed' = Append(fed, price)
               /\ ret' = [op |-> "addPriceToWindow", price |-> price]
        /\ resetDone' = resetDone \ {"patternDetector"}
        /\ UNCHANGED <<sessionVars, lastPriceRef, emaPrice, priceTracker, harmonyState, out,
                       streak>>

\* addPriceToWindow(price, change) for the next tick of an alternating feed,
\* TickGap after the last event
DrainTick ==
    /\ Len(fed) < MaxDrainTicks
    /\ now + TickGap <= DrainEnd
    /\ \E price \in {StartPrice + 100 * (Len(fed) % 2)} :
           /\ entries' = WindowAdd(entries, price,
                                   IF fed = << >> THEN "neutral"
                                   ELSE IF Len(fed) % 2 = 1 THEN "up" ELSE "down",
                                   now + TickGap)
           /\ fed' = Append(fed, price)
           /\ ret' = [op |-> "addPriceToWindow", price |-> price]
    /\ now' = now + TickGap
    /\ resetDone' = resetDone \ {"patternDetector"}
    /\ UNCHANGED <<sessionVars, lastPriceRef, emaPrice, priceTracker,
                   harmonyState, out, streak, feed>>

\* the feed pauses: time passes and nothing is appended
DrainPause ==
    \E pause \in DrainPauses :
        /\ now + pause <= DrainEnd
        /\ now' = now + pause
        /\ ret' = [op |-> "clock", at |-> now']
        /\ UNCHANGED <<sessionVars, resetDone, lastPriceRef, emaPrice,
                       priceTracker, entries, harmonyState, fed, out, streak,
                       feed>>

\* a call detectPattern(): getEntries() cleans the window up, then the
\* window is classified
DetectPatternCall ==
    /\ entries' = Cleanup(entries, now)
    /\ ret' = [op |-> "detectPattern", pattern |-> DetectPattern(entries')]
    /\ UNCHANGED <<sessionVars, resetDone, now, lastPriceRef, emaPrice, priceTracker, harmonyState,
                   fed, out, streak, feed>>

\* time passes: Date.now(), which add() and cleanup() read, moves on
ClockAdvance ==
    \E step \in ClockSteps :
        /\ now + step <= ClockEnd
        /\ now' = now + step
        /\ ret' = [op |-> "clock", at |-> now']
        /\ UNCHANGED <<sessionVars, resetDone, lastPriceRef, emaPrice, priceTracker, entries,
                       harmonyState, fed, out, streak, feed>>

\* PriceWindow.add(price, direction)
WindowAddCall ==
    \E price \in WindowPrices, direction \in Directions :
        /\ Len(entries) < MaxAppends
        /\ entries' = WindowAdd(entries, price, direction, now)
        /\ ret' = [op |-> "add", at |-> now, entries |-> entries']
        /\ resetDone' = resetDone \ {"patternDetector"}
        /\ UNCHANGED <<sessionVars, now, lastPriceRef, emaPrice, priceTracker,
                       harmonyState, fed, out, streak, feed>>

\* PriceWindow.getEntries(): cleanup(), then a copy of the entries
GetEntriesCall ==
    /\ entries' = Cleanup(entries, now)
    /\ ret' = [op |-> "getEntries", at |-> now, entries |-> entries']
    /\ UNCHANGED <<sessionVars, resetDone, now, lastPriceRef, emaPrice, priceTracker, harmonyState,
                   fed, out, streak, feed>>

\* PriceWindow.length: the number of stored entries, as they are
LengthCall ==
    /\ ret' = [op |-> "length", at |-> now, length |-> Len(entries)]
    /\ UNCHANGED <<sessionVars, resetDone, now, lastPriceRef, emaPrice, priceTracker, entries,
                   harmonyState, fed, out, streak, feed>>

\* PriceWindow.getLatest(count): entries.slice(-count), as they are
GetLatestCall ==
    \E count \in 1 .. 2 :
        /\ ret' = [op |-> "getLatest", at |-> now,
                   entries |-> SliceLast(entries, count, 0)]
        /\ UNCHANGED <<sessionVars, resetDone, now, lastPriceRef, emaPrice, priceTracker, entries,
                       harmonyState, fed, out, streak, feed>>

\* resetPatternDetector(): PriceWindow.clear()
ResetPatternDetector ==
    /\ entries' = << >>
    /\ ret' = [op |-> "resetPatternDetector", at |-> now]
    /\ resetDone' = resetDone \cup {"patternDetector"}
    /\ UNCHANGED <<sessionVars, now, lastPriceRef, emaPrice, priceTracker, harmonyState,
                   fed, out, streak, feed>>

-----------------------------------------------------------------------------
(* The page and the engine hook.                                           *)

AUDIO_CONFIG == [MAX_VOICES |-> 32, VOICE_STEAL_THRESHOLD |-> 28]
BASS_LAYER_CONFIG == [updateInterval |-> 500]
PAD_LAYER_CONFIG == [updateInterval |-> 2000]

\* a variant of the throttle test that lets the update through at exactly
\* the interval
ThrottleDueAtLeast(time, last, interval) == time - last >= interval

\* now - last...UpdateRef.current > interval
ThrottleDue(time, last, interval) == time - last > interval

\* a variant of playTick's guard that plays while muted
PlayTickGuardIgnoresMute(audio, ready) == ~(~ready \/ ~audio.enabled)

\* playTick's guard: it returns at once if
\* !isReady || audioState.muted || !audioState.enabled
PlayTickGuard(audio, ready) == ~(~ready \/ audio.muted \/ ~audio.enabled)

\* a variant of the harmony layer that plays at a pad volume of 0
HarmonyLayerAlways(audio) == TRUE

\* the harmony layer's test harmonySynthRef.current &&
\* audioState.layerVolumes.pad > 0; enableAudio creates the synth
HarmonyLayerOn(audio) == audio.pad

\* a variant of the voice count that steals no voice
VoicesAfterNoteNoSteal(active) == active + 1

\* the tick note of playTick: at VOICE_STEAL_THRESHOLD active voices all are
\* released and the count restarts at 0; the note played is one voice more
VoicesAfterNote(active) ==
    (IF active >= AUDIO_CONFIG.VOICE_STEAL_THRESHOLD THEN 0 ELSE active) + 1

\* the timeout set with the note, noteDuration * 1000 + 100 ms later
VoicesAfterRelease(active) == Max2(0, active - 1)

\* what playTick(currentPrice, change) does at time `time` once it is past
\* its guard, audioState being `audio`: it feeds the tracker, the pattern
\* history and the window, then computes the pitch and, if more than
\* 3000 ms have passed since lastHarmonyUpdateRef, detects the pattern and
\* lets a non-neutral one update the harmony from the pitch an octave down.
\* A faulty variant first: pitch and pattern are computed before the price
\* is fed.
PlayTickPitchFirst(currentPrice, change, audio, time) ==
    \E tracker \in {UpdatePriceTracker(priceTracker, currentPrice, time)} :
    \E window \in {WindowAdd(entries, currentPrice, change.direction, time)} :
    \E midiNote \in {PriceToMidi(priceTracker, currentPrice, audio.scale)} :
    \E detects \in {ThrottleDue(time, lastHarmonyUpdateRef, 3000)} :
    \E pattern \in {IF detects THEN Some(DetectPattern(Cleanup(entries, time)))
                     ELSE None} :
    \E harmonize \in {detects /\ HarmonyLayerOn(audio)} :
        /\ priceTracker' = tracker
        /\ patternHistory' = AddToPattern(patternHistory, currentPrice,
                                          change.direction, time)
        /\ entries' = IF detects THEN Cleanup(window, time) ELSE window
        /\ lastHarmonyUpdateRef' = IF detects THEN time ELSE lastHarmonyUpdateRef
        /\ lastBassUpdateRef' =
               IF ThrottleDue(time, lastBassUpdateRef, BASS_LAYER_CONFIG.updateInterval)
               THEN time ELSE lastBassUpdateRef
        /\ lastPadUpdateRef' =
               IF ThrottleDue(time, lastPadUpdateRef, PAD_LAYER_CONFIG.updateInterval)
               THEN time ELSE lastPadUpdateRef
        /\ IF harmonize /\ pattern[1].type # "neutral"
           THEN /\ harmonyState' =
                       UpdateHarmony(harmonyState, pattern[1], midiNote - 12)
                /\ resetDone' = {}
           ELSE /\ harmonyState' = harmonyState
                /\ resetDone' = resetDone \cap {"harmony"}
        /\ tickTimestampsRef' = Append(tickTimestampsRef, time)
        /\ activeVoicesRef' = VoicesAfterNote(activeVoicesRef)
        /\ voiceTimers' = voiceTimers + 1
        /\ lastDirectionRef' = change.direction
        /\ disabledBefore' = FALSE
        /\ ret' = [op |-> "handlePriceTick", price |-> currentPrice,
                   change |-> change, played |-> TRUE, scale |-> audio.scale,
                   midiNote |-> Some(midiNote), pattern |-> pattern,
                   afterRestart |-> disabledBefore,
                   before |-> [entries |-> entries,
                               priceTracker |-> priceTracker,
                               harmonyState |-> harmonyState,
                               patternHistory |-> patternHistory,
                               tickTimestampsRef |-> tickTimestampsRef,
                               lastDirectionRef |-> lastDirectionRef]]

PlayTick(currentPrice, change, audio, time) ==
    \E tracker \in {UpdatePriceTracker(priceTracker, currentPrice, time)} :
    \E window \in {WindowAdd(entries, currentPrice, change.direction, time)} :
    \E midiNote \in {PriceToMidi(tracker, currentPrice, audio.scale)} :
    \E detects \in {ThrottleDue(time, lastHarmonyUpdateRef, 3000)} :
    \E pattern \in {IF detects THEN Some(DetectPattern(Cleanup(window, time)))
                     ELSE None} :
    \E harmonize \in {detects /\ HarmonyLayerOn(audio)} :
        /\ priceTracker' = tracker
        /\ patternHistory' = AddToPattern(patternHistory, currentPrice,
                                          change.direction, time)
        /\ entries' = IF detects THEN Cleanup(window, time) ELSE window
        /\ lastHarmonyUpdateRef' = IF detects THEN time ELSE lastHarmonyUpdateRef
        /\ lastBassUpdateRef' =
               IF ThrottleDue(time, lastBassUpdateRef, BASS_LAYER_CONFIG.updateInterval)
               THEN time ELSE lastBassUpdateRef
        /\ lastPadUpdateRef' =
               IF ThrottleDue(time, lastPadUpdateRef, PAD_LAYER_CONFIG.updateInterval)
               THEN time ELSE lastPadUpdateRef
        /\ IF harmonize /\ pattern[1].type # "neutral"
           THEN /\ harmonyState' =
                       UpdateHarmony(harmonyState, pattern[1], midiNote - 12)
                /\ resetDone' = {}
           ELSE /\ harmonyState' = harmonyState
                /\ resetDone' = resetDone \cap {"harmony"}
        /\ tickTimestampsRef' = Append(tickTimestampsRef, time)
        /\ activeVoicesRef' = VoicesAfterNote(activeVoicesRef)
        /\ voiceTimers' = voiceTimers + 1
        /\ lastDirectionRef' = change.direction
        /\ disabledBefore' = FALSE
        /\ ret' = [op |-> "handlePriceTick", price |-> currentPrice,
                   change |-> change, played |-> TRUE, scale |-> audio.scale,
                   midiNote |-> Some(midiNote), pattern |-> pattern,
                   afterRestart |-> disabledBefore,
                   before |-> [entries |-> entries,
                               priceTracker |-> priceTracker,
                               harmonyState |-> harmonyState,
                               patternHistory |-> patternHistory,
                               tickTimestampsRef |-> tickTimestampsRef,
                               lastDirectionRef |-> lastDirectionRef]]

\* handlePriceTick(currentPrice, lastPriceRef.current) at time `time`, run
\* with the callbacks of a render in which audioState is `audio` and isReady
\* is `ready`: analyzePriceChangeImmediate, then playTick(currentPrice,
\* change), which returns at once unless the engine is ready, enabled and
\* not muted, then lastPriceRef.current = currentPrice.
\* `tick` is the number of the trade message the price came with and
\* `restart` what disabledBefore becomes if nothing is played, `stamps` the
\* tickTimestampsRef the call finds.
HandlePriceTick(currentPrice, tick, audio, ready, time, restart, stamps) ==
    \E change \in {PriceChangeOf(currentPrice, lastPriceRef)} :
        /\ emaPrice' = EmaAfter(emaPrice, currentPrice, lastPriceRef)
        /\ lastPriceRef' = Some(currentPrice)
        /\ processed' = Append(processed, tick)
        /\ IF PlayTickGuard(audio, ready)
           THEN PlayTick(currentPrice, change, audio, time)
           ELSE /\ UNCHANGED <<priceTracker, patternHistory, entries,
                               lastHarmonyUpdateRef, lastBassUpdateRef,
                               lastPadUpdateRef, harmonyState,
                               lastDirectionRef, activeVoicesRef, voiceTimers>>
                /\ tickTimestampsRef' = stamps
                /\ disabledBefore' = restart
                /\ resetDone' = resetDone \ {"priceAnalysis"}
                /\ ret' = [op |-> "handlePriceTick", price |-> currentPrice,
                           change |-> change, played |-> FALSE,
                           scale |-> audio.scale,
                           midiNote |-> None, pattern |-> None,
                           afterRestart |-> FALSE,
                           before |-> [entries |-> entries,
                                       priceTracker |-> priceTracker,
                                       harmonyState |-> harmonyState,
                                       patternHistory |-> patternHistory,
                                       tickTimestampsRef |-> stamps,
                                       lastDirectionRef |-> lastDirectionRef]]

\* ws.onmessage with a trade at price p, `gap` ms after the last event:
\* setPrice(p), the render that follows and the page's effect on
\* [price, handlePriceTick], which runs if the price differs from that of
\* the previous render
OnMessage(p, gap) ==
    /\ now' = now + gap
    /\ delivered' = Append(delivered, p)
    /\ tradePrice' = Some(p)
    /\ IF tradePrice # Some(p)
       THEN HandlePriceTick(p, Len(delivered) + 1, audioState, isReady,
                            now + gap, disabledBefore, tickTimestampsRef)
       ELSE /\ ret' = [op |-> "onmessage", price |-> p]
            /\ UNCHANGED <<lastPriceRef, emaPrice, priceTracker,
                           patternHistory, entries, lastHarmonyUpdateRef, lastBassUpdateRef,
                 lastPadUpdateRef, tickRefs,
                           harmonyState, processed, disabledBefore, resetDone>>
    /\ UNCHANGED <<audioState, isReady, lastTriggerTime, fed, out, streak, bell, wsHook>>

\* a trade message of a short session
TradeMessage ==
    \E p \in SessionPrices :
        /\ Len(delivered) < MaxTrades
        /\ Len(processed) < MaxProcessed
        /\ OnMessage(p, TickGap)
        /\ UNCHANGED feed

\* a trade message of a long feed, played to an enabled engine
FeedMessage ==
    \E kind \in IF Len(delivered) % SegLen = 0 THEN EngineKinds ELSE {feed.kind} :
        /\ audioState.enabled
        /\ Len(delivered) < MaxEngineTicks
        /\ LET last == IF delivered = << >> THEN StartPrice
                       ELSE delivered[Len(delivered)]
               base == IF kind = feed.kind THEN feed.base ELSE last
           IN  /\ feed' = [kind |-> kind, base |-> base]
               /\ OnMessage(NextPrice(kind, base, last, Len(delivered) + 1),
                            TickGap)

\* a trade message `gap` ms after the last one, played to an enabled engine;
\* the price alternates so that every message is a tick
ThrottleMessage ==
    \E gap \in ThrottleGaps :
        /\ audioState.enabled
        /\ Len(delivered) < MaxThrottleTicks
        /\ OnMessage(StartPrice + 100 * (Len(delivered) % 2), gap)
        /\ UNCHANGED feed

\* a call shouldPlayPercussion(currentDirection, previousDirection); out
\* records the calls made
ShouldPlayPercussionCall ==
    \E currentDirection \in Directions, previousDirection \in Directions :
        /\ Len(out) < MaxPercussionCalls
        /\ ret' = [op |-> "shouldPlayPercussion",
                   currentDirection |-> currentDirection,
                   previousDirection |-> previousDirection,
                   result |-> ShouldPlayPercussion(currentDirection,
                                                   previousDirection)]
        /\ out' = Append(out, ret')
        /\ UNCHANGED <<sessionVars, resetDone, now, lastPriceRef, emaPrice,
                       priceTracker, entries, harmonyState, fed, streak, feed>>

\* a variant that holds the position at exactly RSI_EXIT
ShouldExitStrict(long, rsi) ==
    IF long THEN RatLt(Rat(RSI_EXIT, 1), rsi) ELSE RatLt(rsi, Rat(RSI_EXIT, 1))

\* "Check for exit first": a LONG exits at rsi >= RSI_EXIT, a SHORT at
\* rsi <= RSI_EXIT
ShouldExit(long, rsi) ==
    IF long THEN RatLe(Rat(RSI_EXIT, 1), rsi) ELSE RatLe(rsi, Rat(RSI_EXIT, 1))

\* a variant that keeps the last PnL when the position is closed
PnlAfterExitKept(pnlPercent) == pnlPercent

\* the exit branch: lastPnlPercentRef.current = 0
PnlAfterExit(pnlPercent) == RatZero

\* playBell(pnlPercent) at time `time`: whether the bell is triggered
BellRings(b, time) ==
    /\ b.isReady /\ ~b.muted /\ b.enabled
    /\ ~ (time - b.lastSoundTime < SOUND_THROTTLE_MS)

\* onPriceTick(price) at time `time` on the bell hook `b`: the hook after
\* the tick and whether a bell was triggered
OnPriceTick(b, price, time) ==
    LET history == LastOf(Append(b.priceHistory, price), 100)
        rsi     == CalculateRsi(history, RSI_PERIOD)
        b1      == [b EXCEPT !.priceHistory = history, !.currentRsi = rsi]
        rings   == BellRings(b, time)
        rung    == [b1 EXCEPT !.lastSoundTime = IF rings THEN time ELSE @]
    IN  IF b.position # None
        THEN LET position   == b.position[1]
                 long       == position.side = "LONG"
                 pnlPercent ==
                     IF long
                     THEN Rat((price - position.entryPrice) * 100, position.entryPrice)
                     ELSE Rat((position.entryPrice - price) * 100, position.entryPrice)
                 shouldExit == ShouldExit(long, rsi)
             IN  IF shouldExit
                 THEN [hook |-> [(IF ExitPlaysBell THEN rung ELSE b1) EXCEPT
                                     !.totalTrades = @ + 1,
                                     !.wins = IF pnlPercent.n > 0 THEN @ + 1 ELSE @,
                                     !.losses = IF pnlPercent.n > 0 THEN @ ELSE @ + 1,
                                     !.position = None,
                                     !.lastPnlPercent = PnlAfterExit(pnlPercent)],
                       bell |-> ExitPlaysBell /\ rings, exit |-> TRUE]
                 ELSE [hook |-> [rung EXCEPT !.lastPnlPercent = pnlPercent],
                       bell |-> rings, exit |-> FALSE]
        ELSE IF RatLe(rsi, Rat(RSI_OVERSOLD, 1)) \/ RatLe(Rat(RSI_OVERBOUGHT, 1), rsi)
        THEN [hook |-> [rung EXCEPT
                           !.position =
                               Some([side |-> IF RatLe(rsi, Rat(RSI_OVERSOLD, 1))
                                              THEN "LONG" ELSE "SHORT",
                                     entryPrice |-> price, entryRsi |-> rsi,
                                     entryTime |-> time]),
                           !.lastPnlPercent = RatZero],
              bell |-> rings, exit |-> FALSE]
        ELSE [hook |-> b1, bell |-> FALSE, exit |-> FALSE]

\* a price tick delivered to the bell hook, the price moving by one of
\* `moves` after one of `gaps` ms
BellTickOf(moves, gaps) ==
    \E move \in moves, gap \in gaps :
        /\ Len(fed) < MaxBellTicks
        /\ Len(fed) < BellWarmup => move = -1 /\ gap = 200
        /\ \E price \in {IF fed = << >> THEN StartPrice ELSE fed[Len(fed)] + move} :
           \E result \in {OnPriceTick(bell, price, now + gap)} :
               /\ bell' = result.hook
               /\ ret' = [op |-> "onPriceTick", price |-> price,
                          bell |-> result.bell, exit |-> result.exit,
                          before |-> bell.position]
               /\ fed' = Append(fed, price)
        /\ now' = now + gap
        /\ UNCHANGED <<lastTriggerTime, patternHistory, audioState, isReady,
                       lastHarmonyUpdateRef, lastBassUpdateRef, lastPadUpdateRef, tickRefs, wsHook,
                       tradePrice, delivered, processed, disabledBefore,
                       resetDone, lastPriceRef, emaPrice, priceTracker, entries,
                       harmonyState, out, streak, feed>>

BellTick == BellTickOf(BellMoves, BellGaps)

\* the same with a third move, a sharp fall, at a steady pace
BellTickWide == BellTickOf(BellMovesWide, {200})

\* the bell hook's enableAudio(), once Tone has loaded
EnableBell ==
    /\ ~bell.enabled
    /\ bell' = [bell EXCEPT !.enabled = TRUE, !.isReady = TRUE]
    /\ ret' = [op |-> "bellEnableAudio"]
    /\ UNCHANGED <<lastTriggerTime, patternHistory, audioState, isReady,
                   lastHarmonyUpdateRef, lastBassUpdateRef, lastPadUpdateRef, tickRefs, wsHook,
                   tradePrice, delivered, processed, disabledBefore,
                   resetDone, now, lastPriceRef, emaPrice, priceTracker, entries,
                   harmonyState, fed, out, streak, feed>>

\* the bell hook's disableAudio()
DisableBell ==
    /\ bell.enabled
    /\ bell' = [bell EXCEPT !.enabled = FALSE, !.isReady = FALSE]
    /\ ret' = [op |-> "bellDisableAudio"]
    /\ UNCHANGED <<lastTriggerTime, patternHistory, audioState, isReady,
                   lastHarmonyUpdateRef, lastBassUpdateRef, lastPadUpdateRef, tickRefs, wsHook,
                   tradePrice, delivered, processed, disabledBefore,
                   resetDone, now, lastPriceRef, emaPrice, priceTracker, entries,
                   harmonyState, fed, out, streak, feed>>

\* the variables the feed hook's connection handlers leave alone
WsFrame ==
    UNCHANGED <<lastTriggerTime, patternHistory, audioState, isReady,
                lastHarmonyUpdateRef, lastBassUpdateRef, lastPadUpdateRef, tickRefs,
                bell, tradePrice, delivered, processed, disabledBefore,
                resetDone, now, lastPriceRef, emaPrice, priceTracker,
                entries, harmonyState, fed, out, streak, feed>>

\* the hook is mounted: its effect calls connect()
MountHook ==
    \E throws \in BOOLEAN :
        /\ wsHook.mounted = "initial"
        /\ throws => wsHook.failures < MaxFailures
        /\ wsHook' = Connect([wsHook EXCEPT !.mounted = "mounted"], throws)
        /\ ret' = [op |-> "mount", throws |-> throws]
        /\ WsFrame

\* a connecting socket opens: ws.onopen
SocketOpens ==
    \E id \in 1 .. Len(wsHook.sockets) :
        /\ wsHook.sockets[id] = "connecting"
        /\ wsHook' = OnOpen([wsHook EXCEPT !.sockets[id] = "open"])
        /\ ret' = [op |-> "onopen", socket |-> id]
        /\ WsFrame

\* a live socket fails or is closed by the server: ws.onerror if it failed,
\* then ws.onclose
SocketCloses ==
    \E id \in 1 .. Len(wsHook.sockets), withError \in BOOLEAN :
        /\ wsHook.sockets[id] \in {"connecting", "open"}
        /\ wsHook.failures < MaxFailures
        /\ \E closed \in {[wsHook EXCEPT !.sockets[id] = "closed",
                                         !.failures = @ + 1]} :
               wsHook' = OnClose(IF withError THEN OnError(closed) ELSE closed)
        /\ ret' = [op |-> "onclose", socket |-> id, withError |-> withError,
                   mounted |-> wsHook.mounted = "mounted"]
        /\ WsFrame

\* a socket closed by close() reports it: ws.onclose
SocketClosed ==
    \E id \in 1 .. Len(wsHook.sockets) :
        /\ wsHook.sockets[id] = "closing"
        /\ wsHook' = OnClose([wsHook EXCEPT !.sockets[id] = "closed"])
        /\ ret' = [op |-> "onclose", socket |-> id, withError |-> FALSE,
                   mounted |-> wsHook.mounted = "mounted"]
        /\ WsFrame

\* a reconnect timer fires: reconnectDelayRef.current *= 2; connect()
ReconnectTimerFires ==
    \E timer \in wsHook.timers, throws \in BOOLEAN :
        /\ throws => wsHook.failures < MaxFailures
        /\ wsHook' = Connect([wsHook EXCEPT !.timers = @ \ {timer},
                                            !.reconnectDelayRef = @ * 2],
                             throws)
        /\ ret' = [op |-> "reconnect", delay |-> timer.delay, k |-> timer.k,
                   throws |-> throws]
        /\ WsFrame

\* the hook is unmounted: the effect's cleanup runs
UnmountHook ==
    /\ wsHook.mounted = "mounted"
    /\ wsHook' = EffectCleanup(wsHook)
    /\ ret' = [op |-> "unmount"]
    /\ WsFrame

\* a call priceToMidi(price, scale) on the tracker as it is
PriceToMidiCall ==
    \E p \in PitchPrices, scale \in PitchScales :
        /\ ret' = [op |-> "priceToMidi", price |-> p, scale |-> scale,
                   midiNote |-> PriceToMidi(priceTracker, p, scale)]
        /\ UNCHANGED <<sessionVars, resetDone, now, lastPriceRef, emaPrice,
                       priceTracker, entries, harmonyState, fed, out, streak,
                       feed>>

\* a burst of trades VoiceGap ms apart, played to an enabled engine; the
\* price alternates so that every message is a tick
VoiceMessage ==
    /\ audioState.enabled
    /\ Len(delivered) < MaxVoiceTicks
    /\ OnMessage(StartPrice + 100 * (Len(delivered) % 2), VoiceGap)
    /\ UNCHANGED feed

\* one of the timeouts set by playTick runs: a voice is released. The
\* timeouts may run at any point after the note that set them.
VoiceReleaseTimer ==
    /\ voiceTimers > 0
    /\ voiceTimers' = voiceTimers - 1
    /\ activeVoicesRef' = VoicesAfterRelease(activeVoicesRef)
    /\ ret' = [op |-> "voiceRelease", before |-> activeVoicesRef]
    /\ UNCHANGED <<lastTriggerTime, patternHistory, audioState, isReady,
                   lastHarmonyUpdateRef, lastBassUpdateRef, lastPadUpdateRef,
                   tickTimestampsRef, lastDirectionRef, bell, wsHook,
                   tradePrice, delivered, processed, disabledBefore,
                   resetDone, now, lastPriceRef, emaPrice, priceTracker,
                   entries, harmonyState, fed, out, streak, feed>>

\* the render after audioState or isReady was set: playTick and with it
\* handlePriceTick are new callbacks, so the page's effect runs again with
\* the price of the last trade
Rerender(audio, ready, restart, stamps) ==
    /\ audioState' = audio
    /\ isReady' = ready
    /\ IF tradePrice # None
       THEN HandlePriceTick(tradePrice[1], Len(delivered), audio, ready, now,
                            restart, stamps)
       ELSE /\ ret' = [op |-> "render"]
            /\ disabledBefore' = restart
            /\ tickTimestampsRef' = stamps
            /\ UNCHANGED <<lastPriceRef, emaPrice, priceTracker,
                           patternHistory, entries, lastHarmonyUpdateRef,
                           lastBassUpdateRef, lastPadUpdateRef,
                           lastDirectionRef, activeVoicesRef, voiceTimers,
                           harmonyState, processed, resetDone>>
    /\ UNCHANGED <<now, tradePrice, delivered, lastTriggerTime, fed, out,
                   streak, feed, bell, wsHook>>

\* enableAudio(), offered while audio is off
EnableAudio ==
    /\ ~audioState.enabled
    /\ Len(processed) < MaxProcessed
    /\ Rerender([audioState EXCEPT !.enabled = TRUE], TRUE, disabledBefore,
                tickTimestampsRef)

\* disableAudio(), offered while audio is on; it empties tickTimestampsRef
DisableAudio ==
    /\ audioState.enabled
    /\ Len(processed) < MaxProcessed
    /\ Rerender([audioState EXCEPT !.enabled = FALSE], FALSE, TRUE, << >>)

\* setScale(scale)
SetScale ==
    \E scale \in SessionScales :
        /\ Len(processed) < MaxProcessed
        /\ Rerender([audioState EXCEPT !.scale = scale], isReady,
                    disabledBefore, tickTimestampsRef)

\* setLayerVolume('pad', volume) with a volume of 0 or above 0, used before
\* the first trade arrives
SetLayerVolume ==
    \E on \in BOOLEAN :
        /\ tradePrice = None
        /\ audioState.pad # on
        /\ Rerender([audioState EXCEPT !.pad = on], isReady, disabledBefore,
                    tickTimestampsRef)

\* toggleMute()
ToggleMute ==
    /\ Len(processed) < MaxProcessed
    /\ Rerender([audioState EXCEPT !.muted = ~audioState.muted], isReady,
                disabledBefore, tickTimestampsRef)

\* the legacy analyzePriceChange(currentPrice, previousPrice): null within
\* DEBOUNCE_MS of the last call that went through
AnalyzePriceChangeCall ==
    \E currentPrice \in SessionPrices :
        /\ Len(fed) < MaxLegacyCalls
        /\ fed' = Append(fed, currentPrice)
        /\ IF now - lastTriggerTime < DEBOUNCE_MS
           THEN /\ ret' = [op |-> "analyzePriceChange", change |-> None]
                /\ UNCHANGED <<lastTriggerTime, emaPrice, resetDone>>
           ELSE /\ lastTriggerTime' = now
                /\ emaPrice' = EmaAfter(emaPrice, currentPrice, lastPriceRef)
                /\ resetDone' = resetDone \ {"priceAnalysis"}
                /\ ret' = [op |-> "analyzePriceChange",
                           change |-> Some(PriceChangeOf(currentPrice,
                                                         lastPriceRef))]
        /\ UNCHANGED <<now, lastPriceRef, priceTracker, entries, harmonyState,
                       out, streak, feed, patternHistory, audioState, isReady,
                       lastHarmonyUpdateRef, lastBassUpdateRef,
                 lastPadUpdateRef, tickRefs, bell, wsHook, tradePrice, delivered, processed,
                       disabledBefore>>

\* resetPriceAnalysis()
ResetPriceAnalysis ==
    /\ lastTriggerTime' = 0
    /\ emaPrice' = None
    /\ resetDone' = resetDone \cup {"priceAnalysis"}
    /\ ret' = [op |-> "resetPriceAnalysis"]
    /\ UNCHANGED <<now, lastPriceRef, priceTracker, entries, harmonyState,
                   fed, out, streak, feed, patternHistory, audioState, isReady,
                   lastHarmonyUpdateRef, lastBassUpdateRef,
                 lastPadUpdateRef, tickRefs, bell, wsHook, tradePrice, delivered, processed,
                   disabledBefore>>

\* resetPatternHistory()
ResetPatternHistory ==
    /\ patternHistory' = InitPatternHistory
    /\ resetDone' = resetDone \cup {"patternHistory"}
    /\ ret' = [op |-> "resetPatternHistory"]
    /\ UNCHANGED <<now, lastPriceRef, emaPrice, priceTracker, entries,
                   harmonyState, fed, out, streak, feed, lastTriggerTime,
                   audioState, isReady, lastHarmonyUpdateRef, lastBassUpdateRef,
                 lastPadUpdateRef, tickRefs, bell, wsHook, tradePrice,
                   delivered, processed, disabledBefore>>

SpecScale == InitScale /\ [][QuantizeCall]_vars
\* the arpeggio's arguments are drawn when the run starts
InitArpeggio ==
    /\ InitState
    /\ ret \in [op : {"arpeggioPending"}, rootMidi : ArpeggioRoots,
                 quality : ChordQualities, direction : ArpeggioDirections,
                 count : 0 .. MaxCount]
SpecArpeggio == InitArpeggio /\ [][ArpeggioCall]_vars
SpecTick == Init /\ [][AnalyzeTick]_vars
\* one updatePriceTracker call of the long feed; fed records the arrivals
LongFeedUpdate ==
    \E price \in {LongFeedPrices[1], LongFeedPrices[2]} :
        /\ Len(fed) < MaxLongFeed
        /\ Len(fed) < LongFeedFixed => price = LongFeedPrices[1 + (Len(fed) % 2)]
        /\ \E tracker \in {UpdatePriceTracker(priceTracker, price, now)} :
               priceTracker' = tracker
        /\ fed' = Append(fed, price)
        /\ ret' = [op |-> "updatePriceTracker", price |-> price]
        /\ resetDone' = resetDone \ {"priceTracker"}
        /\ UNCHANGED <<sessionVars, now, lastPriceRef, emaPrice, entries, harmonyState,
                       out, streak, feed>>

SpecTrackerLong == Init /\ [][LongFeedUpdate]_vars
SpecTracker == Init /\ [][UpdatePriceTrackerCall \/ ResetPriceTracker]_vars
HarmonyRead ==
    \/ GetHarmonyStateCall \/ GetHarmonyRuleCall \/ GetChordNotesCall
    \/ GetArpeggioNotesCall \/ GetRhythmTimingCall \/ GetHarmonyDescriptionCall
SpecHarmony == Init /\ [][UpdateHarmonyCall \/ ResetHarmony \/ HarmonyRead]_vars
SpecPattern == Init /\ [][WindowTick \/ DetectPatternCall]_vars
Resets ==
    \/ ResetPriceAnalysis \/ ResetPriceTracker \/ ResetPatternDetector
    \/ ResetPatternHistory \/ ResetHarmony
SpecEngine == Init /\ [][EnableAudio \/ FeedMessage \/ PriceToMidiCall]_vars
\* a run that ends in resets: calls of the legacy analyzer, a feed played to
\* the engine, then the components' resets in any order
LegacyCallBeforeFeed == delivered = << >> /\ AnalyzePriceChangeCall
ResetsAfterFeed == Len(delivered) >= MaxEngineTicks /\ Resets
SpecReset ==
    Init /\ [][LegacyCallBeforeFeed \/ EnableAudio \/ FeedMessage
                   \/ ResetsAfterFeed]_vars
\* a feed played to the engine at either pad volume
SpecLayers == Init /\ [][SetLayerVolume \/ EnableAudio \/ FeedMessage]_vars
SpecVoices == Init /\ [][EnableAudio \/ VoiceMessage \/ VoiceReleaseTimer]_vars
SpecThrottle == Init /\ [][EnableAudio \/ ThrottleMessage]_vars
SpecDrain == Init /\ [][DrainTick \/ DrainPause \/ DetectPatternCall]_vars
SocketNext ==
    \/ MountHook \/ SocketOpens \/ SocketCloses \/ SocketClosed
    \/ ReconnectTimerFires \/ UnmountHook
SpecSocket == Init /\ [][SocketNext]_vars
\* timers fire and closed sockets report it
SpecSocketLive ==
    /\ Init /\ [][SocketNext]_vars
    /\ WF_vars(ReconnectTimerFires) /\ WF_vars(SocketClosed)
SpecBellMachine == Init /\ [][BellTickWide]_vars
SpecPercussion == Init /\ [][ShouldPlayPercussionCall]_vars
SpecBell == Init /\ [][BellTick \/ EnableBell \/ DisableBell]_vars
SpecSession ==
    Init /\ [][TradeMessage \/ EnableAudio \/ DisableAudio \/ SetScale
                   \/ ToggleMute]_vars
WindowRead == GetEntriesCall \/ LengthCall \/ GetLatestCall
SpecWindow ==
    Init /\ [][ClockAdvance \/ WindowAddCall \/ WindowRead
                   \/ ResetPatternDetector]_vars

-----------------------------------------------------------------------------
(* Properties of the scale quantizer (under SpecScale).                    *)

Quantized == ret.op = "quantizeToScale"

\* the position of pitch m's scale degree in the scale's interval list, or 0
\* when m is not in the scale (m >= -12)
DegreeIndex(m, scale, rootNote) ==
    LET intervals == SCALE_INTERVALS[scale]
        degree    == (m + 24 - rootNote) % 12
    IN  IF \E i \in 1 .. Len(intervals) : intervals[i] = degree
        THEN CHOOSE i \in 1 .. Len(intervals) : intervals[i] = degree
        ELSE 0

InScale(m, scale, rootNote) == DegreeIndex(m, scale, rootNote) # 0

\* C1: quantization is idempotent: a non-negative pitch that is already a
\* member of the scale (any scale, any root) is returned unchanged.
C1_Idempotent ==
    (Quantized /\ InScale(ret.midiNote, ret.scale, ret.rootNote))
        => ret.result = ret.midiNote

C1_Witness ==
    /\ Quantized
    /\ InScale(ret.midiNote, ret.scale, ret.rootNote)
    /\ ret.scale = "pentatonic" /\ ret.rootNote = 7 /\ ret.midiNote = 52
    /\ ret.result = 52

\* C2: quantization is bounded: the result is at most 6 semitones away from
\* the raw pitch.
C2_Bounded == Quantized => Abs(ret.result - ret.midiNote) <= 6

\* the octave correction acted: the result left the input's octave
C2_Witness ==
    /\ Quantized
    /\ ret.result \div 12 # ret.midiNote \div 12
    /\ Abs(ret.result - ret.midiNote) <= 6

\* C3: the result is a member of the scale, no member of the scale in any
\* octave is strictly closer to the input, and among equally close scale
\* degrees the one listed first in the interval list is the one returned.
C3_Nearest ==
    Quantized =>
        LET p == ret.midiNote
            q == ret.result
            d == Abs(q - p)
        IN  /\ InScale(q, ret.scale, ret.rootNote)
            /\ \A m \in (p - 11) .. (p + 11) :
                   InScale(m, ret.scale, ret.rootNote) =>
                       /\ Abs(m - p) >= d
                       /\ (Abs(m - p) = d /\ m # q) =>
                              DegreeIndex(q, ret.scale, ret.rootNote) <
                                  DegreeIndex(m, ret.scale, ret.rootNote)

\* a tie: two members of the scale are equally close to the input
C3_Witness ==
    /\ Quantized
    /\ \E m \in (ret.midiNote - 11) .. (ret.midiNote + 11) :
           /\ m # ret.result
           /\ InScale(m, ret.scale, ret.rootNote)
           /\ Abs(m - ret.midiNote) = Abs(ret.result - ret.midiNote)
    /\ ret.scale = "minor" /\ ret.result > ret.midiNote

-----------------------------------------------------------------------------
(* Properties of the tick analyzer (under SpecTick).                       *)

\* the i-th tick moved the price by at least 0.5% of the previous price
BigMove(i) == 200 * Abs(fed[i] - fed[i - 1]) >= fed[i - 1]

\* C6: magnitude saturates: whenever the previous price is non-null and
\* |(price - previous) / previous| >= 0.005 the magnitude is exactly 1, and
\* the sequence 100, 100.6 yields direction up with magnitude 1.
C6_Saturation ==
    /\ \A i \in 2 .. Len(fed) : BigMove(i) => RatEq(out[i].magnitude, RatOne)
    /\ (Len(fed) >= 2 /\ fed[1] = 1000000 /\ fed[2] = 1006000)
           => (out[2].direction = "up" /\ RatEq(out[2].magnitude, RatOne))

\* a move of exactly 0.5% downwards and one of 0.6% upwards were classified
C6_Witness ==
    /\ fed = <<1000000, 995000, 1006000>>
    /\ out[2].direction = "down" /\ out[2].magnitude = RatOne
    /\ out[3].direction = "up" /\ out[3].magnitude = RatOne

SubThresholdFeed == fed = <<1000000, 1000001, 1000002>>

\* C7 as stated: feeding 100, 100.0001, 100.0002 yields three
\* classifications that are all neutral with magnitude 0.
C7_AllNeutralZero ==
    SubThresholdFeed =>
        \A i \in 1 .. 3 : out[i].direction = "neutral" /\ out[i].magnitude.n = 0

\* C7 as amended: the first tick (no previous price) is neutral with
\* magnitude 0; the second, whose change is exactly 1e-6 and so not below the
\* neutral threshold, is up with magnitude 1e-6 / 0.005 = 0.0002; the third,
\* whose change is just below 1e-6, is neutral with the non-zero magnitude
\* (0.0001 / 100.0001) / 0.005.
C7_SubThreshold ==
    SubThresholdFeed =>
        /\ out[1].direction = "neutral" /\ RatEq(out[1].magnitude, RatZero)
        /\ out[2].direction = "up" /\ RatEq(out[2].magnitude, Rat(2, 10000))
        /\ out[3].direction = "neutral"
        /\ RatEq(out[3].magnitude, Rat(200, 1000001))

C7_Witness == SubThresholdFeed /\ Len(out) = 3 /\ out[3].magnitude.n > 0

-----------------------------------------------------------------------------
(* Properties of the harmony engine (under SpecHarmony).                   *)

RuleLength(type) == Len(HARMONY_RULES[type].progression)

\* C8: with a fixed pattern type every updateHarmony call advances
\* progressionIndex by one modulo the length of that pattern's progression,
\* so that from the reset state the index after n calls is n modulo the
\* length: back at step 0 after exactly len(progression) calls, not before.
C8_ProgressionCycles ==
    /\ ret.op = "updateHarmony" =>
           harmonyState.progressionIndex =
               (streak.prevIndex + 1) % RuleLength(ret.pattern.type)
    /\ streak.type \in PatternTypes =>
           /\ harmonyState.progressionIndex = streak.n % RuleLength(streak.type)
           /\ (harmonyState.progressionIndex = 0) <=>
                  (streak.n % RuleLength(streak.type) = 0)

\* the three-step progression came round after three calls, all reversal_up
C8_Witness ==
    /\ streak = [type |-> "reversal_up", n |-> 3, prevIndex |-> 2]
    /\ harmonyState.progressionIndex = 0
    /\ harmonyState.progression = <<2, 7, 0>>

-----------------------------------------------------------------------------
(* Properties of the adaptive range (under SpecTracker).                   *)

\* currentMax - currentMin >= currentMin * 0.002
RangeAtLeastFloor(t) ==
    DecLe(DecAdd(t.currentMin, DecScale(t.currentMin, 2, 3)), t.currentMax)

\* C4: after any sequence of updatePriceTracker calls with positive prices,
\* from the initial or a reset tracker, the adaptive range satisfies
\* currentMax - currentMin >= currentMin * 0.002.
C4_MinimumSpan == RangeAtLeastFloor(priceTracker)

\* the last update blended the percentiles into a range narrower than the
\* floor, and the floor was enforced
C4_Witness ==
    /\ ret.op = "updatePriceTracker"
    /\ Len(priceTracker.prices) > 11
    /\ LET blended == BlendRange([priceTracker EXCEPT
                                     !.currentMin = ret.before.currentMin,
                                     !.currentMax = ret.before.currentMax])
       IN  /\ ~ RangeAtLeastFloor(blended)
           /\ DecLt(priceTracker.currentMin, blended.currentMin)
    /\ RangeAtLeastFloor(priceTracker)
    /\ \E i \in 1 .. Len(priceTracker.prices) :
           priceTracker.prices[i] # priceTracker.prices[1]

-----------------------------------------------------------------------------
(* Properties of the pattern detector (under SpecPattern).                 *)

\* detectPattern() has just classified the window, nothing having been
\* evicted from it
Classified == ret.op = "detectPattern" /\ Len(entries) = Len(fed)

\* the window shows a reversal in its last 20 samples and a breakout of its
\* last price from the 25 samples before the last 5
BothSignatures ==
    /\ Len(entries) >= CONFIG.MIN_TICKS_FOR_ANALYSIS
    /\ DetectReversal(entries) # "null"
    /\ DetectBreakout(entries) # "null"

\* C5: a window of at least 30 samples that satisfies both the reversal and
\* the breakout condition is reported as the reversal, never as a breakout.
C5_ReversalFirst ==
    ret.op = "detectPattern" /\ BothSignatures
        => ret.pattern.type = "reversal_" \o DetectReversal(entries)

C5_Witness ==
    /\ ret.op = "detectPattern" /\ BothSignatures
    /\ DetectReversal(entries) = "up" /\ DetectBreakout(entries) = "up"
    /\ ret.pattern.type = "reversal_up"

\* at least 30 samples, each 0.05% above the one before
Rising ==
    /\ Len(fed) >= CONFIG.MIN_TICKS_FOR_ANALYSIS
    /\ \A i \in 2 .. Len(fed) :
           fed[i] = fed[i - 1] + (fed[i - 1] + 1000) \div 2000

\* C9 as stated: every query made from the 30th sample of a feed rising by
\* 0.05% a sample returns strong_uptrend with a strength above 0.5.
C9_RisingIsUptrend ==
    Classified /\ Rising
        => /\ ret.pattern.type = "strong_uptrend"
           /\ RatLt(Rat(1, 2), ret.pattern.strength)

\* C9, amended: such a feed spreads its prices so far (a coefficient of
\* variation above 0.35%) that every query from the 30th sample on returns
\* high_volatility, with a strength above 0.5, and never strong_uptrend.
C9_RisingIsHighVolatility ==
    Classified /\ Rising
        => /\ ret.pattern.type = "high_volatility"
           /\ RatLt(Rat(1, 2), ret.pattern.strength)
           /\ RatLt(Rat(1, 2), ret.pattern.data.trendStrength)

C9_Witness ==
    /\ Classified /\ Rising /\ Len(fed) = MaxWindowTicks
    /\ ret.pattern.type = "high_volatility"

RECURSIVE SeqMin(_)
SeqMin(q) == IF Len(q) = 1 THEN q[1] ELSE Min2(Head(q), SeqMin(Tail(q)))
RECURSIVE SeqMax(_)
SeqMax(q) == IF Len(q) = 1 THEN q[1] ELSE Max2(Head(q), SeqMax(Tail(q)))

\* 40 samples, all within 0.03% of the lowest of them
InBand ==
    /\ Len(fed) = 40
    /\ 10000 * (SeqMax(fed) - SeqMin(fed)) <= 3 * SeqMin(fed)

\* the last price lies beyond the resistance (the support) of the samples
\* 30th-last to 6th-last by more than half their support-resistance range
OlderLevels == CalculateLevels(SliceLast(entries, 30, 5))
BreaksUp ==
    2 * fed[Len(fed)] > 3 * OlderLevels.resistance - OlderLevels.support
BreaksDown ==
    2 * fed[Len(fed)] < 3 * OlderLevels.support - OlderLevels.resistance

\* C10 as stated: 40 samples within a 0.03% band are a consolidation, a flat
\* older slice with only the latest price moving included.
C10_BandIsConsolidation ==
    Classified /\ InBand => ret.pattern.type = "consolidation"

\* C10, amended: 40 samples within a 0.03% band are a consolidation unless
\* the last price breaks out of the older slice, which it does by any move
\* at all when that slice is flat; the pattern is then the breakout.
C10_BandIsConsolidationOrBreakout ==
    Classified /\ InBand
        => ret.pattern.type = IF BreaksUp THEN "breakout_up"
                              ELSE IF BreaksDown THEN "breakout_down"
                              ELSE "consolidation"

C10_Witness ==
    /\ Classified /\ InBand
    /\ fed[Len(fed)] # fed[Len(fed) - 1]
    /\ ~ BreaksUp /\ ~ BreaksDown
    /\ ret.pattern.type = "consolidation"


\* C14: whenever the window holds fewer than 30 samples, detectPattern
\* returns neutral with strength 0, whatever the prices in the window are.
C14_InsufficientData ==
    ret.op = "detectPattern" /\ Len(entries) < 30
        => /\ ret.pattern.type = "neutral"
           /\ ret.pattern.strength = RatZero
           /\ ret.pattern.duration = 0

\* 29 samples that have moved by more than 1%, classified neutral
C14_Witness ==
    /\ ret.op = "detectPattern" /\ Len(entries) = 29
    /\ 100 * (entries[29].price - entries[1].price) > entries[1].price
    /\ ret.pattern.type = "neutral" /\ ret.pattern.strength = RatZero

-----------------------------------------------------------------------------
(* Further properties of the harmony engine (under SpecHarmony).           *)

\* C18: the harmony state is written by updateHarmony and resetHarmony only;
\* the six read operations leave chord, root, progression, index and
\* intensity as they are, and the state persists between calls.
C18_OnlyUpdateWrites ==
    [][harmonyState' # harmonyState
           => ret'.op \in {"updateHarmony", "resetHarmony"}]_vars

\* a read operation has answered from a state an update had set
C18_Witness ==
    /\ ret.op = "getHarmonyDescription"
    /\ harmonyState # InitHarmony
    /\ ret.text.chord = harmonyState.currentChord

RatPlus(a, b) == Rat(a.n * b.d + b.n * a.d, a.d * b.d)
RatMin(a, b) == IF RatLe(a, b) THEN a ELSE b
RatMax(a, b) == IF RatLe(a, b) THEN b ELSE a

ExpectedIntensity(type, strength) ==
    IF type \in {"breakout_up", "breakout_down"}
    THEN RatMin(RatOne, RatPlus(strength, Rat(3, 10)))
    ELSE IF type = "consolidation"
    THEN RatMax(Rat(2, 10), RatPlus(strength, Rat(-2, 10)))
    ELSE strength

\* C19: after updateHarmony with a strength in [0,1] the intensity is
\* min(1, strength + 0.3) for the breakouts, max(0.2, strength - 0.2) for
\* consolidation and the strength otherwise; it always lies in [0,1].
C19_Intensity ==
    /\ ret.op = "updateHarmony" =>
           RatEq(harmonyState.intensity,
                 ExpectedIntensity(ret.pattern.type, ret.pattern.strength))
    /\ RatLe(RatZero, harmonyState.intensity)
    /\ RatLe(harmonyState.intensity, RatOne)

\* a breakout of strength 0.9 stored with the intensity capped at 1
C19_Witness ==
    /\ ret.op = "updateHarmony"
    /\ ret.pattern.type = "breakout_up"
    /\ RatEq(ret.pattern.strength, Rat(9, 10))
    /\ RatEq(harmonyState.intensity, RatOne)

\* min(floor(strength * n), n - 1), from the definition of floor
ExpectedQualityIndex(strength, n) ==
    IF strength.n * n >= (n - 1) * strength.d THEN n - 1
    ELSE CHOOSE j \in 0 .. n - 1 :
             j * strength.d <= strength.n * n /\ strength.n * n < (j + 1) * strength.d

\* C20: updateHarmony selects the chord quality at index
\* min(floor(strength * n), n - 1) of the rule's n qualities and sets
\* chordRoot to basePitch + progression[i], i being the index already
\* advanced by one step round the rule's progression.
C20_QualityAndRoot ==
    ret.op = "updateHarmony" =>
        LET rule     == HARMONY_RULES[ret.pattern.type]
            n        == Len(rule.chordQualities)
            advanced == (streak.prevIndex + 1) % Len(rule.progression)
        IN  /\ harmonyState.currentChord =
                   rule.chordQualities[
                       ExpectedQualityIndex(ret.pattern.strength, n) + 1]
            /\ harmonyState.progressionIndex = advanced
            /\ harmonyState.chordRoot =
                   ret.basePitch + rule.progression[advanced + 1]
            /\ harmonyState.progression = rule.progression

\* strength 1 clamped to the last quality, the root moved off the base pitch
C20_Witness ==
    /\ ret.op = "updateHarmony"
    /\ ret.pattern.type = "strong_uptrend"
    /\ ret.pattern.strength = RatOne
    /\ harmonyState.currentChord = "augmented"
    /\ harmonyState.chordRoot = ret.basePitch + 5

-----------------------------------------------------------------------------
(* The pattern window read directly (under SpecWindow).                    *)

\* the entries are in timestamp order and all younger than the window
Fresh(es, time) ==
    /\ \A i \in 1 .. Len(es) : es[i].timestamp > time - CONFIG.WINDOW_SIZE
    /\ \A i \in 1 .. Len(es) - 1 : es[i].timestamp <= es[i + 1].timestamp

\* C15: in every state observed through a read accessor of the window
\* (getEntries, getLatest, length) or right after an append, the entries
\* observed are in timestamp order and all satisfy timestamp > now - 60000:
\* every accessor evicts before it answers.
C15_EvictedOnEveryAccess ==
    /\ ret.op \in {"add", "getEntries", "getLatest"} => Fresh(ret.entries, ret.at)
    /\ ret.op = "length" => ret.length = Len(Cleanup(entries, ret.at))

\* what the window does guarantee: append and getEntries evict
C15_EvictedOnAppendAndGetEntries ==
    ret.op \in {"add", "getEntries"}
        => Fresh(ret.entries, ret.at) /\ ret.entries = entries

\* getLatest has answered with an entry that had expired
C15_StaleRead ==
    /\ ret.op = "getLatest"
    /\ ret.entries # << >>
    /\ ret.entries[1].timestamp <= ret.at - CONFIG.WINDOW_SIZE

-----------------------------------------------------------------------------
(* The engine playing a feed (under SpecEngine).                           *)

\* the pitch the last operation returned, if it returned one
PitchReturned ==
    \/ ret.op = "priceToMidi"
    \/ ret.op = "handlePriceTick" /\ ret.played

PitchOf == IF ret.op = "priceToMidi" THEN ret.midiNote ELSE ret.midiNote[1]

\* C16: for every price, also one below the adaptive low or above the
\* adaptive high, and every reachable adaptive range, priceToMidi returns
\* an integer pitch that is a member of the chosen scale (rooted at C) and
\* lies in 48..72.
C16_PitchInScaleAndRange ==
    PitchReturned =>
        /\ PitchOf \in MIDI_RANGE.min .. MIDI_RANGE.max
        /\ \E k \in 1 .. Len(SCALE_INTERVALS[ret.scale]) :
               PitchOf % 12 = SCALE_INTERVALS[ret.scale][k]

\* a tick above the adapted range was played at the top of the range
C16_Witness ==
    /\ ret.op = "handlePriceTick" /\ ret.played
    /\ Len(priceTracker.prices) > 10
    /\ DecLt(priceTracker.currentMax, Dec(ret.price))
    /\ ret.midiNote = Some(MIDI_RANGE.max)

\* C17: when a tick is played, its price is in the adaptive range's
\* history and in the pattern window before the pitch is computed and
\* before the pattern is detected: the pitch is that of the price on the
\* tracker already fed with it, and the pattern is that of the window
\* already holding the tick.
C17_FedBeforePitchAndPattern ==
    ret.op = "handlePriceTick" /\ ret.played =>
        /\ priceTracker.prices # << >>
        /\ priceTracker.prices[Len(priceTracker.prices)] = ret.price
        /\ ret.midiNote = Some(PriceToMidi(priceTracker, ret.price, ret.scale))
        /\ entries # << >>
        /\ entries[Len(entries)].price = ret.price
        /\ entries[Len(entries)].timestamp = now
        /\ ret.pattern # None =>
               /\ ret.pattern[1] = DetectPattern(entries)
               /\ ret.pattern[1].data.tickCount = Len(ret.before.entries) + 1

\* the tick that completed the 30 samples was classified with itself in
\* the window, and the pattern moved the harmony
C17_Witness ==
    /\ ret.op = "handlePriceTick" /\ ret.played
    /\ ret.pattern # None
    /\ ret.pattern[1].type # "neutral"
    /\ ret.pattern[1].data.tickCount > Len(ret.before.entries)
    /\ harmonyState # ret.before.harmonyState

-----------------------------------------------------------------------------
(* Resets (under SpecReset) and the session (under SpecSession).           *)

C12_ResetOnRestart ==
    ret.op = "handlePriceTick" /\ ret.played /\ ret.afterRestart =>
        /\ ret.before.entries = << >>
        /\ ret.before.priceTracker.currentMin = InitTracker.currentMin
        /\ ret.before.priceTracker.currentMax = InitTracker.currentMax
        /\ ret.before.harmonyState = InitHarmony

\* the first tick played after a restart found the window of the session
\* before
C12_StaleAfterRestart ==
    /\ ret.op = "handlePriceTick" /\ ret.played /\ ret.afterRestart
    /\ ret.before.entries # << >>
    /\ ret.before.priceTracker.prices # << >>

\* C13: every trade message delivered is handled by exactly one
\* handlePriceTick run, in arrival order, also when its price equals the
\* previous one's, and no trade is handled again when volume, mute or
\* scale change.
C13_ExactlyOnce ==
    processed = [i \in 1 .. Len(delivered) |-> i]

\* a trade was handled twice
C13_Reprocessed ==
    \E i, j \in 1 .. Len(processed) : i # j /\ processed[i] = processed[j]

\* a trade was never handled although a later one was
C13_Dropped ==
    \E n \in 1 .. Len(delivered) :
        /\ \A i \in 1 .. Len(processed) : processed[i] # n
        /\ \E i \in 1 .. Len(processed) : processed[i] > n

-----------------------------------------------------------------------------
(* getArpeggioNotes called directly (under SpecArpeggio).                  *)

\* the pitches of the spread-voiced chord an octave below, in place and an
\* octave above, within 36..96
ArpeggioPool(rootMidi, quality) ==
    LET intervals == CHORD_INTERVALS[quality]
    IN  {n \in 36 .. 96 :
            \E i \in 1 .. Len(intervals), octave \in {-1, 0, 1} :
                n = rootMidi + intervals[i] + (IF i % 2 = 1 THEN 0 ELSE 12)
                        + 12 * octave}

ArpeggioReturned == ret.op = "getArpeggioNotesOf"

\* C21: getArpeggioNotes returns only pitches in 36..96 of the spread chord
\* over three octaves: "up" the count lowest ascending, "down" the count
\* highest descending, "random" count of them without repetition, "none"
\* the empty list (count meaning all of them where fewer exist).
C21_ArpeggioSelection ==
    ArpeggioReturned =>
        LET pool  == ArpeggioPool(ret.rootMidi, ret.quality)
            notes == ret.notes
            k     == Min2(ret.count, Cardinality(pool))
            taken == {notes[i] : i \in 1 .. Len(notes)}
        IN  /\ taken \subseteq pool
            /\ ret.direction = "none" => notes = << >>
            /\ ret.direction # "none" =>
                   /\ Len(notes) = k
                   /\ Cardinality(taken) = k
            /\ ret.direction = "up" =>
                   /\ \A i \in 1 .. Len(notes) - 1 : notes[i] < notes[i + 1]
                   /\ \A a \in taken, b \in pool \ taken : a < b
            /\ ret.direction = "down" =>
                   /\ \A i \in 1 .. Len(notes) - 1 : notes[i] > notes[i + 1]
                   /\ \A a \in taken, b \in pool \ taken : a > b

\* the same for the counts of at least 1
C21_ArpeggioSelectionFromOne ==
    ArpeggioReturned /\ ret.count >= 1 => C21_ArpeggioSelection

\* "down" with count 0 has returned notes
C21_DownZeroReturnsAll ==
    /\ ArpeggioReturned
    /\ ret.direction = "down" /\ ret.count = 0
    /\ ret.notes # << >>

-----------------------------------------------------------------------------
(* C22: the moving average has no effect on the returned PriceChange.      *)

\* the arguments of the i-th call of the feed
TickArgs(i) == <<fed[i], IF i = 1 THEN None ELSE Some(fed[i - 1])>>

RECURSIVE EmaBeforeCall(_)
\* the moving average the i-th call of the feed starts from
EmaBeforeCall(i) ==
    IF i = 1 THEN None
    ELSE EmaAfter(EmaBeforeCall(i - 1), TickArgs(i - 1)[1], TickArgs(i - 1)[2])

EmaDiffers(x, y) ==
    \/ (x = None) # (y = None)
    \/ x # None /\ y # None /\ (DecLt(x[1], y[1]) \/ DecLt(y[1], x[1]))

-----------------------------------------------------------------------------
(* C23: the classification of one tick.                                    *)

\* |cur - prev| / prev < 10^-6, computed on the integers
BelowOneMillionth(cur, prev) == MulLt(Abs(cur - prev), 1000 * 1000, 1, prev)

\* C23: the first call (no previous price) returns neutral, magnitude 0 and
\* percentChange 0; every later call returns percentChange =
\* (price - previous) / previous and direction neutral iff |percentChange|
\* < 10^-6, up iff positive and not below 10^-6, down iff negative and not
\* below 10^-6.
C23_Classification ==
    \A i \in 1 .. Len(out) :
        IF i = 1
        THEN /\ out[i].direction = "neutral"
             /\ RatEq(out[i].magnitude, RatZero)
             /\ RatEq(out[i].percentChange, RatZero)
        ELSE LET cur == fed[i]
                 prev == fed[i - 1]
                 small == BelowOneMillionth(cur, prev)
             IN  /\ RatEq(out[i].percentChange, Rat(cur - prev, prev))
                 /\ out[i].direction = "neutral" <=> small
                 /\ out[i].direction = "up" <=> cur > prev /\ ~ small
                 /\ out[i].direction = "down" <=> cur < prev /\ ~ small

\* 100, 100.0001 (exactly 10^-6 above: up), 100.0002 (less than 10^-6 above:
\* neutral with a non-zero change), 99.5 (down)
C23_Witness ==
    /\ fed = <<1000000, 1000001, 1000002, 995000>>
    /\ Len(out) = 4
    /\ out[1].direction = "neutral"
    /\ out[2].direction = "up"
    /\ out[3].direction = "neutral" /\ out[3].percentChange.n # 0
    /\ out[4].direction = "down"

-----------------------------------------------------------------------------
(* C24: the tracker's history is the last MAX_TRACKED_PRICES arrivals.     *)

\* C24: after any sequence of updatePriceTracker calls the stored history
\* holds at most 1000 samples, and they are the most recently ingested ones
\* in arrival order.
C24_BoundedRecentHistory ==
    LET prices == priceTracker.prices
        dropped == Len(fed) - Len(prices)
    IN  /\ Len(prices) <= 1000
        /\ Len(prices) = Min2(Len(fed), 1000)
        /\ \A i \in 1 .. Len(prices) : prices[i] = fed[dropped + i]

\* more than 1000 arrivals, the last ones not alternating, and the oldest
\* ones gone
C24_Witness ==
    /\ Len(fed) > 1000
    /\ Len(priceTracker.prices) = 1000
    /\ fed[Len(fed)] = fed[Len(fed) - 1]
    /\ priceTracker.prices[1] = fed[Len(fed) - 999]

-----------------------------------------------------------------------------
(* C25: the throttles of playTick.                                         *)

\* this step ran playTick past its guard
PlayedStep == processed' # processed /\ ret'.op = "handlePriceTick" /\ ret'.played

\* the stamp `last` of a throttled update moves in this step, to the time of
\* the tick, exactly when a tick is played more than `interval` ms after it
ThrottledStep(last, lastNext, interval) ==
    /\ lastNext # last => PlayedStep /\ lastNext = now' /\ now' - last > interval
    /\ PlayedStep /\ now' - last > interval => lastNext = now'

\* C25: on every tick playTick processes, the harmony recomputation runs iff
\* more than 3000 ms have passed since the previous one, the pad update iff
\* more than 2000 ms and the bass update iff more than 500 ms have passed
\* since theirs; two harmony updates are never less than 3000 ms apart.
C25_ThrottleGating ==
    [][/\ ThrottledStep(lastHarmonyUpdateRef, lastHarmonyUpdateRef', 3000)
       /\ ThrottledStep(lastPadUpdateRef, lastPadUpdateRef', 2000)
       /\ ThrottledStep(lastBassUpdateRef, lastBassUpdateRef', 500)
       /\ PlayedStep =>
              (ret'.pattern # None <=> now' - lastHarmonyUpdateRef > 3000)
       /\ lastHarmonyUpdateRef' # lastHarmonyUpdateRef =>
              lastHarmonyUpdateRef' - lastHarmonyUpdateRef >= 3000]_vars

\* a tick played exactly 3000 ms after the last harmony update, 2000 ms
\* after the last pad update and 500 ms after the last bass update: none of
\* the three runs
C25_Witness ==
    /\ ret.op = "handlePriceTick" /\ ret.played
    /\ ret.pattern = None
    /\ lastHarmonyUpdateRef > StartTime + 3000
    /\ now - lastHarmonyUpdateRef = 3000
    /\ now - lastPadUpdateRef = 2000
    /\ now - lastBassUpdateRef = 500

-----------------------------------------------------------------------------
(* C26: the strength of a detected pattern.                                *)

PatternReturned == ret.op = "detectPattern"

\* C26: every DetectedPattern returned by detectPattern is of one of the
\* nine pattern types and has a strength in [0, 1].
C26_StrengthInUnitInterval ==
    PatternReturned =>
        /\ ret.pattern.type \in PatternTypes
        /\ RatLe(RatZero, ret.pattern.strength)
        /\ RatLe(ret.pattern.strength, RatOne)

\* a window whose coefficient of variation is above the 0.5% that counts as
\* full volatility, reported as high_volatility with strength 1
C26_Witness ==
    /\ PatternReturned
    /\ ret.pattern.type = "high_volatility"
    /\ Len(entries) >= CONFIG.MIN_TICKS_FOR_ANALYSIS
    /\ LET vol == CalculateVolatility(entries) IN BigLt(vol.den, vol.num)
    /\ RatEq(ret.pattern.strength, RatOne)

-----------------------------------------------------------------------------
(* C27: the duration of a detected pattern.                                *)

\* C27 as stated: every outcome on a window of at least 30 samples carries a
\* duration proportional to the number of samples (50 ms per sample),
\* whichever pattern type is reported.
C27_DurationProportional ==
    PatternReturned /\ Len(entries) >= 30 =>
        ret.pattern.duration = 50 * Len(entries)

\* C27, amended: on a window of at least 30 samples the duration is 50 ms
\* per sample for high_volatility, strong_uptrend, strong_downtrend,
\* consolidation and neutral, while a reversal carries 1000 ms and a breakout
\* 5000 ms whatever the number of samples.
C27_Duration ==
    PatternReturned /\ Len(entries) >= 30 =>
        ret.pattern.duration =
            CASE ret.pattern.type \in {"reversal_up", "reversal_down"} -> 1000
              [] ret.pattern.type \in {"breakout_up", "breakout_down"} -> 5000
              [] OTHER -> 50 * Len(entries)

\* a reversal on more than 30 samples and with the fixed duration
C27_Witness ==
    /\ PatternReturned
    /\ Len(entries) > 30
    /\ ret.pattern.type \in {"reversal_up", "reversal_down"}
    /\ ret.pattern.duration = 1000

-----------------------------------------------------------------------------
(* C28: the percussion trigger.                                            *)

\* C28: shouldPlayPercussion(current, previous) is true if and only if both
\* directions are non-neutral and they differ.
C28_PercussionTrigger ==
    \A i \in 1 .. Len(out) :
        out[i].result <=>
            /\ out[i].currentDirection # "neutral"
            /\ out[i].previousDirection # "neutral"
            /\ out[i].currentDirection # out[i].previousDirection

\* a turn from down to up (a hit), a move out of neutral and a repeated
\* direction (no hit)
C28_Witness ==
    /\ Len(out) = 3
    /\ out[1] = [op |-> "shouldPlayPercussion", currentDirection |-> "up",
                 previousDirection |-> "down", result |-> TRUE]
    /\ out[2] = [op |-> "shouldPlayPercussion", currentDirection |-> "up",
                 previousDirection |-> "neutral", result |-> FALSE]
    /\ out[3] = [op |-> "shouldPlayPercussion", currentDirection |-> "down",
                 previousDirection |-> "down", result |-> FALSE]

-----------------------------------------------------------------------------
(* C29: the RSI bell sounds only in a trade.                               *)

BellTicked == ret.op = "onPriceTick"

\* C29: a bell is triggered on a price tick only if a virtual position is
\* open at the end of that tick: none while flat, none on the tick that
\* closes the position.
C29_BellOnlyInPosition ==
    BellTicked =>
        /\ ret.bell => bell.position # None
        /\ ret.exit => ~ret.bell /\ ret.before # None /\ bell.position = None

\* the position was closed on an earlier tick with the hook able to play,
\* a bell rang on this tick, which opens the next position
C29_Witness ==
    /\ BellTicked /\ ret.bell
    /\ ret.before = None
    /\ bell.position # None /\ bell.position[1].side = "SHORT"
    /\ bell.totalTrades = 1

\* a tick that closes the position with the hook able to play: no bell
C29_SilentExit ==
    /\ BellTicked /\ ret.exit /\ ~ret.bell
    /\ BellRings(bell, now)

-----------------------------------------------------------------------------
(* C30: detectPattern is first-match-wins.                                 *)

\* the conditions of the strong trends on the window `es`
TrendCondition(es) ==
    LET change == Rat(es[Len(es)].price - es[1].price, es[1].price)
        trend  == CalculateTrendStrength(es)
    IN  \/ RatLt(CONFIG.TREND_THRESHOLD, change) /\ RatLt(Rat(1, 2), trend)
        \/ RatLt(change, Rat(-1, 1000)) /\ RatLt(trend, Rat(-1, 2))

\* C30: a window of at least 30 samples that satisfies the breakout
\* condition is never reported as high_volatility, strong_uptrend,
\* strong_downtrend or consolidation, and a window with normalized
\* volatility > 0.7 is never reported as a strong trend or as consolidation.
C30_FirstMatchWins ==
    PatternReturned /\ Len(entries) >= 30 =>
        /\ DetectBreakout(entries) # "null" =>
               ret.pattern.type \notin {"high_volatility", "strong_uptrend",
                                        "strong_downtrend", "consolidation"}
        /\ VolGt(CalculateVolatility(entries), 7, 10) =>
               ret.pattern.type \notin {"strong_uptrend", "strong_downtrend",
                                        "consolidation"}

\* a breakout on a window that is also highly volatile and in a strong
\* trend, reported as the breakout
C30_Witness ==
    /\ PatternReturned /\ Len(entries) >= 30
    /\ DetectBreakout(entries) # "null"
    /\ VolGt(CalculateVolatility(entries), 7, 10)
    /\ TrendCondition(entries)
    /\ ret.pattern.type \in {"breakout_up", "breakout_down"}

\* a highly volatile window in a strong trend without a sharp signal,
\* reported as high_volatility
C30_VolatileTrend ==
    /\ PatternReturned /\ Len(entries) >= 30
    /\ VolGt(CalculateVolatility(entries), 7, 10)
    /\ TrendCondition(entries)
    /\ ret.pattern.type = "high_volatility"

-----------------------------------------------------------------------------
(* C31: a window nothing was appended to for 60 s is empty.                *)

\* C31: if no tick was appended for 60 s or more, so that every stored
\* sample is at least 60 s old, the next detectPattern query sees an empty
\* window and returns neutral with strength 0 and tickCount 0, however many
\* samples were stored before.
C31_WindowDrain ==
    [][(/\ ret'.op = "detectPattern"
        /\ \A i \in 1 .. Len(entries) :
               entries[i].timestamp + 60000 <= now') =>
           /\ entries' = << >>
           /\ ret'.pattern.type = "neutral"
           /\ RatEq(ret'.pattern.strength, RatZero)
           /\ ret'.pattern.data.tickCount = 0]_vars

\* a window of 30 samples or more queried exactly 60 s after its last tick
C31_Witness ==
    /\ ret.op = "detectPattern"
    /\ Len(fed) >= 30
    /\ now = StartTime + Len(fed) * TickGap + 60000
    /\ entries = << >>
    /\ ret.pattern.type = "neutral"
    /\ ret.pattern.data.tickCount = 0

\* the same window queried 1 ms earlier still holds its last sample
C31_NotYetDrained ==
    /\ ret.op = "detectPattern"
    /\ Len(fed) >= 30
    /\ now = StartTime + Len(fed) * TickGap + 59999
    /\ Len(entries) = 1

-----------------------------------------------------------------------------
(* C32: the reconnect backoff.                                             *)

RECURSIVE Pow2(_)
Pow2(n) == IF n = 0 THEN 1 ELSE 2 * Pow2(n - 1)

\* C32: the delay before the k-th consecutive reconnect attempt after a
\* socket close is min(1000 * 2^(k-1), 30000) ms and never above 30000 ms;
\* after a successful open the next reconnect delay is 1000 ms again and
\* reconnectAttempts is 0.
C32_Backoff ==
    /\ \A timer \in wsHook.timers :
           /\ timer.delay = Min2(1000 * Pow2(timer.k - 1), 30000)
           /\ timer.delay <= 30000
    /\ ret.op = "onopen" =>
           /\ ReconnectDelay(wsHook.reconnectDelayRef) = 1000
           /\ wsHook.mounted = "mounted" => wsHook.reconnectAttempts = 0

\* the sixth and the seventh close in a row: the stored delay has passed
\* the cap and the timer is set to 30000 ms
C32_Witness ==
    /\ wsHook.mounted = "mounted"
    /\ wsHook.reconnectAttempts = 7
    /\ wsHook.reconnectDelayRef = 64000
    /\ \E timer \in wsHook.timers : timer.k = 7 /\ timer.delay = 30000

\* a close right after an open that followed failed attempts: 1000 ms again
C32_FreshAfterOpen ==
    /\ wsHook.failures >= 3
    /\ Len(wsHook.sockets) >= 3
    /\ \E timer \in wsHook.timers : timer.k = 1 /\ timer.delay = 1000

-----------------------------------------------------------------------------
(* C33: a failed connection is retried.                                    *)

\* C33: after any connection failure (socket close, socket error or the
\* WebSocket constructor throwing inside connect) while the hook is mounted,
\* a new connection attempt is eventually made, and a REST fallback fetch
\* is issued.
C33_RetryLiveness ==
    /\ (wsHook.retry # "none") ~> (wsHook.retry = "none")
    /\ [][wsHook'.failures > wsHook.failures =>
              wsHook'.restFetches > wsHook.restFetches]_vars

\* the part that holds: after a socket close or error while mounted a new
\* connection attempt is eventually made (or the hook is unmounted), and
\* every failure issues a REST fetch
C33_RetryAfterClose ==
    /\ (wsHook.retry = "close") ~> (wsHook.retry # "close")
    /\ [][wsHook'.failures > wsHook.failures =>
              wsHook'.restFetches > wsHook.restFetches]_vars

\* the constructor has thrown in a mounted hook: no socket is live, no timer
\* is pending, nothing will call connect again
C33_StuckAfterThrow ==
    /\ wsHook.mounted = "mounted"
    /\ wsHook.retry = "throw"
    /\ wsHook.timers = {}
    /\ \A id \in 1 .. Len(wsHook.sockets) : wsHook.sockets[id] = "closed"
    /\ wsHook.failures < MaxFailures

-----------------------------------------------------------------------------
(* C34: nothing reconnects after unmount.                                  *)

\* C34: once the hook is unmounted no reconnect timer is pending and no new
\* connection is opened.
C34_QuietAfterUnmount ==
    wsHook.mounted = "unmounted" =>
        /\ wsHook.timers = {}
        /\ Len(wsHook.sockets) = wsHook.socketsAtUnmount

\* a socket created after the unmount: the cleanup's close() fired onclose,
\* which set a timer, which called connect()
C34_ReconnectsAfterUnmount ==
    /\ wsHook.mounted = "unmounted"
    /\ Len(wsHook.sockets) > wsHook.socketsAtUnmount
    /\ ret.op = "reconnect"

-----------------------------------------------------------------------------
(* C35: the virtual position of the RSI bell.                              *)

\* the rises and the falls over the last 14 deltas of the prices fed
FedGains == SumGains(fed, Len(fed) - 13, 1)
FedLosses == SumGains(fed, Len(fed) - 13, -1)
\* RSI <= 20, RSI >= 80, RSI >= 50 and RSI <= 50 after the last price fed,
\* the RSI being 50 below 15 prices, 100 without falls and
\* 100 * gains / (gains + losses) otherwise
RsiOversold == Len(fed) >= 15 /\ FedLosses # 0 /\ 5 * FedGains <= FedGains + FedLosses
RsiOverbought ==
    Len(fed) >= 15 /\ (FedLosses = 0 \/ 5 * FedGains >= 4 * (FedGains + FedLosses))
RsiAtLeastExit == Len(fed) < 15 \/ FedLosses = 0 \/ FedGains >= FedLosses
RsiAtMostExit == Len(fed) < 15 \/ (FedLosses # 0 /\ FedGains <= FedLosses)

SideOf(position) == IF position = None THEN "FLAT" ELSE position[1].side

\* C35: from flat a tick opens LONG iff RSI <= 20 and SHORT iff RSI >= 80
\* and otherwise stays flat; an open LONG closes iff RSI >= 50, an open SHORT
\* iff RSI <= 50, and stays as it is otherwise; a tick that closes a position
\* opens none; with fewer than 15 prices stored no position is opened.
C35_PositionMachine ==
    BellTicked =>
        /\ SideOf(bell.position) =
               CASE SideOf(ret.before) = "FLAT" ->
                        IF RsiOversold THEN "LONG"
                        ELSE IF RsiOverbought THEN "SHORT" ELSE "FLAT"
                 [] SideOf(ret.before) = "LONG" ->
                        IF RsiAtLeastExit THEN "FLAT" ELSE "LONG"
                 [] SideOf(ret.before) = "SHORT" ->
                        IF RsiAtMostExit THEN "FLAT" ELSE "SHORT"
        /\ ret.before # None /\ bell.position # None => bell.position = ret.before
        /\ Len(bell.priceHistory) < 15 => bell.position = None

\* a SHORT, opened at an RSI of 80 or more, closed by a sharp fall
C35_Witness ==
    /\ BellTicked
    /\ SideOf(ret.before) = "SHORT" /\ bell.position = None
    /\ RsiAtMostExit /\ RsiOverbought = FALSE
    /\ bell.totalTrades = 1

\* a LONG closed at an RSI of exactly 50
C35_ExitAtFifty ==
    /\ BellTicked
    /\ SideOf(ret.before) = "LONG" /\ bell.position = None
    /\ FedGains = FedLosses

-----------------------------------------------------------------------------
(* C36: the trade counters of the RSI bell.                                *)

\* the step closes the open position
ClosesPosition == bell.position # None /\ bell'.position = None

\* C36: after any sequence of price ticks totalTrades = wins + losses, every
\* tick adds one to totalTrades exactly when it closes a position and never
\* lowers wins or losses, and the unrealized PnL reported by getTradeInfo is 0
\* whenever no position is open.
C36_TradeCounters ==
    /\ [](/\ bell.totalTrades = bell.wins + bell.losses
          /\ bell.position = None => RatEq(bell.lastPnlPercent, RatZero))
    /\ [][/\ bell'.totalTrades = bell.totalTrades + (IF ClosesPosition THEN 1 ELSE 0)
          /\ bell'.wins >= bell.wins
          /\ bell'.losses >= bell.losses]_vars

\* a LONG closed with a profit: one trade, one win, nothing unrealized
C36_Witness ==
    /\ BellTicked
    /\ SideOf(ret.before) = "LONG" /\ bell.position = None
    /\ ret.price > ret.before[1].entryPrice
    /\ bell.totalTrades = 1 /\ bell.wins = 1 /\ bell.losses = 0
    /\ RatEq(bell.lastPnlPercent, RatZero)

\* a position held at a loss: an unrealized PnL below 0 while it is open
C36_HeldAtLoss ==
    /\ BellTicked
    /\ bell.position # None /\ ret.before # None
    /\ bell.lastPnlPercent.n < 0
    /\ bell.totalTrades = 0

-----------------------------------------------------------------------------
(* C37: playTick's guard (under SpecSession).                              *)

\* C37: a tick is played exactly when the engine is ready, enabled and not
\* muted, and a tick that is not played leaves the adaptive range and its
\* history, the pattern window, the melody pattern history, the harmony
\* state, the tick timestamps and the last direction as playTick found them.
C37_GuardedTickChangesNothing ==
    ret.op = "handlePriceTick" =>
        /\ ret.played = (isReady /\ audioState.enabled /\ ~audioState.muted)
        /\ ~ret.played =>
               /\ priceTracker = ret.before.priceTracker
               /\ entries = ret.before.entries
               /\ patternHistory = ret.before.patternHistory
               /\ harmonyState = ret.before.harmonyState
               /\ tickTimestampsRef = ret.before.tickTimestampsRef
               /\ lastDirectionRef = ret.before.lastDirectionRef

\* a tick given to a muted engine that has played a rising tick before
C37_Witness ==
    /\ ret.op = "handlePriceTick" /\ ~ret.played
    /\ isReady /\ audioState.enabled /\ audioState.muted
    /\ Len(tickTimestampsRef) >= 2 /\ lastDirectionRef = "up"
    /\ Len(entries) >= 2

\* a tick given to an engine that was switched off
C37_SwitchedOff ==
    /\ ret.op = "handlePriceTick" /\ ~ret.played
    /\ ~isReady /\ ~audioState.enabled
    /\ tickTimestampsRef = << >> /\ Len(entries) >= 1

-----------------------------------------------------------------------------
(* C38: the harmony layer of playTick (under SpecLayers).                  *)

\* C38: a processed tick changes the harmony state only if it is played,
\* more than 3000 ms have passed since lastHarmonyUpdateRef, the pattern it
\* detects is not neutral and the pad volume is above 0; while the pattern
\* is neutral the progression does not advance.
C38_HarmonyGate ==
    [][ret'.op = "handlePriceTick" =>
          /\ harmonyState' # harmonyState =>
                 /\ ret'.played
                 /\ now' - lastHarmonyUpdateRef > 3000
                 /\ ret'.pattern # None
                 /\ ret'.pattern[1].type # "neutral"
                 /\ audioState'.pad
          /\ (ret'.pattern = None \/ ret'.pattern[1].type = "neutral") =>
                 harmonyState'.progressionIndex = harmonyState.progressionIndex]_vars

\* a tick that moved the harmony on: the gate was open, the pattern not
\* neutral, the pad volume above 0
C38_Witness ==
    /\ ret.op = "handlePriceTick" /\ ret.played
    /\ ret.pattern # None /\ ret.pattern[1].type # "neutral"
    /\ audioState.pad
    /\ harmonyState # ret.before.harmonyState
    /\ harmonyState.progressionIndex # ret.before.harmonyState.progressionIndex

\* the same tick at a pad volume of 0: the harmony stays as it was
C38_PadSilent ==
    /\ ret.op = "handlePriceTick" /\ ret.played
    /\ ret.pattern # None /\ ret.pattern[1].type # "neutral"
    /\ ~audioState.pad
    /\ harmonyState = InitHarmony
    /\ Len(delivered) >= 9

\* the gate open on a neutral pattern at a pad volume above 0
C38_NeutralSilent ==
    /\ ret.op = "handlePriceTick" /\ ret.played
    /\ ret.pattern # None /\ ret.pattern[1].type = "neutral"
    /\ audioState.pad
    /\ lastHarmonyUpdateRef = now
    /\ harmonyState = ret.before.harmonyState

-----------------------------------------------------------------------------
(* C39: the progression index stays inside the stored progression          *)
(* (under SpecHarmony).                                                    *)

\* C39: in every reachable harmony state the stored progression is not empty
\* and 0 <= progressionIndex < its length, whichever rules were applied
\* before and after a reset.
C39_IndexInProgression ==
    /\ Len(harmonyState.progression) >= 1
    /\ harmonyState.progressionIndex >= 0
    /\ harmonyState.progressionIndex < Len(harmonyState.progression)

\* the last step of a progression of length 4 followed by the rule of
\* length 3: the index wraps to 1
C39_Witness ==
    /\ ret.op = "updateHarmony"
    /\ ret.pattern.type = "reversal_up"
    /\ streak.type = "mixed" /\ streak.prevIndex = 3
    /\ Len(harmonyState.progression) = 3
    /\ harmonyState.progressionIndex = 1

\* the rule of length 3 at its last step followed by a rule of length 4
C39_ShortToLong ==
    /\ ret.op = "updateHarmony"
    /\ ret.pattern.type # "reversal_up"
    /\ streak.type = "mixed" /\ streak.prevIndex = 2
    /\ Len(harmonyState.progression) = 4
    /\ harmonyState.progressionIndex = 3

-----------------------------------------------------------------------------
(* C40: the active-voice counter (under SpecVoices).                       *)

\* C40: however the ticks played and the release timeouts interleave, the
\* count of active voices is never negative, never above
\* VOICE_STEAL_THRESHOLD and so never reaches MAX_VOICES, and a note played
\* when the count has reached the threshold starts from a count of 0.
C40_VoiceBound ==
    /\ [](/\ activeVoicesRef >= 0
          /\ activeVoicesRef <= AUDIO_CONFIG.VOICE_STEAL_THRESHOLD
          /\ activeVoicesRef < AUDIO_CONFIG.MAX_VOICES)
    /\ [][(/\ ret'.op = "handlePriceTick" /\ ret'.played
           /\ activeVoicesRef >= AUDIO_CONFIG.VOICE_STEAL_THRESHOLD) =>
              activeVoicesRef' = 1]_vars

\* 28 notes without a release, then a 29th: the voices are stolen and the
\* 29th is the only one counted, with all 29 timeouts pending
C40_Witness ==
    /\ ret.op = "handlePriceTick" /\ ret.played
    /\ Len(tickTimestampsRef) = 29
    /\ voiceTimers = 29
    /\ activeVoicesRef = 1

\* a timeout of a stolen voice runs at a count of 0
C40_ReleaseAtZero ==
    /\ ret.op = "voiceRelease" /\ ret.before = 0
    /\ activeVoicesRef = 0
    /\ voiceTimers >= 27

\* the count at the threshold
C40_AtThreshold ==
    /\ activeVoicesRef = AUDIO_CONFIG.VOICE_STEAL_THRESHOLD
    /\ voiceTimers = 28

====
